---- MODULE Spec2Model ----
(***************************************************************************)
(* Task tracking and municipal performance evaluation (Sistema de Tareas   *)
(* CDCE).  The store (divisiones, municipios, tareas, entregas) is the     *)
(* only shared state; request handlers read and write it, the calculators  *)
(* of the services read it.  Instants are milliseconds since an arbitrary  *)
(* origin, as Date.getTime() gives them.  Names of municipalities and      *)
(* divisions are natural numbers ordered as the names are ordered by       *)
(* ORDER BY nombre ASC.                                                    *)
(***************************************************************************)
EXTENDS Integers, Sequences, FiniteSets, TLC

(* ------------------------------ bounds -------------------------------- *)
MaxTareas == 2
MaxEntregas == 2
MaxMunicipios == 2
MaxTime == 2
MaxSolicitudes == 2
MaxEntregasCiclo == 1
DiasMes == 1
MaxMes == 1
MaxDivisiones == 2
MaxFilasEntregas == 4
MaxDuplicadas == 6
MaxColores == 17
MaxBajas == 2

(* ------------------------- program constants -------------------------- *)
Hora == 3600000
Segundo == 1000
Dia == 24 * Hora

VARIABLES
  divisiones,     \* id -> nombre of every row of table divisiones
  municipios,     \* id -> nombre of every row of table municipios
  tareas,         \* id -> row of table tareas
  entregas,       \* id -> row of table entregas
  nextTareaId,    \* autoincrement of tareas
  nextEntregaId,  \* autoincrement of entregas
  nextMunicipioId,\* autoincrement of municipios
  nextDivisionId, \* autoincrement of divisiones
  reqsDivision,   \* ids of eliminarDivision requests between Tarea.count and destroy
  consulta,       \* the read request between two of its awaits, or Ninguna
  ahora,          \* the server clock, new Date()
  reqs,           \* finalizarTareaManual requests between findByPk and update
  escrituras,     \* per task id: UPDATE statements that set estado on its row
  last            \* what happened last: a handler and its outcome, or a clock tick

vars == <<divisiones, municipios, tareas, entregas, nextTareaId, nextEntregaId,
          nextMunicipioId, nextDivisionId, reqsDivision, consulta, ahora, reqs,
          escrituras, last>>

store == <<divisiones, municipios, tareas, entregas, nextTareaId, nextEntregaId,
           nextMunicipioId, nextDivisionId>>

Estados == {"en_proceso", "finalizada"}

Instantes == {k * Hora : k \in 0..MaxTime}

NombresTarea == {"A", "B"}

Solicitudes == 1..MaxSolicitudes

\* calificacion is NULL (<<>>) or one integer (<<c>>)
SinCalificacion == <<>>

Resultado(op, id, res) == [op |-> op, id |-> id, res |-> res]

\* no read request is between two awaits
Ninguna == [op |-> "ninguna"]

(* ------------------------------ helpers ------------------------------- *)
RECURSIVE SetToSeq(_)
SetToSeq(S) ==
  IF S = {} THEN <<>>
  ELSE LET x == CHOOSE y \in S : \A z \in S : y <= z
       IN <<x>> \o SetToSeq(S \ {x})

\* rows of a table in ORDER BY nombre ASC (rowid breaks ties)
RECURSIVE OrdenPorNombre(_, _)
OrdenPorNombre(tabla, ids) ==
  IF ids = {} THEN <<>>
  ELSE LET x == CHOOSE y \in ids : \A z \in ids :
                  \/ tabla[y] < tabla[z]
                  \/ tabla[y] = tabla[z] /\ y <= z
       IN <<x>> \o OrdenPorNombre(tabla, ids \ {x})

Quitar(f, id) == [x \in DOMAIN f \ {id} |-> f[x]]

(* --------------------------- the server clock ------------------------- *)
Tick ==
  /\ ahora < MaxTime * Hora
  /\ ahora' = ahora + Hora
  /\ last' = Resultado("Tick", 0, "ok")
  /\ UNCHANGED <<store, reqsDivision, consulta, reqs, escrituras>>

(* ------------------------------ tareas -------------------------------- *)
\* Tarea.create: the foreign key and the model validator of fechaCulminacion
TareaCreate(fila) ==
  /\ fila.divisionId \in DOMAIN divisiones
  /\ fila.fechaCulminacion >= fila.fechaInicio
  /\ tareas' = tareas @@ (nextTareaId :> fila)
  /\ nextTareaId' = nextTareaId + 1

estadoInicial_lte(esRetroactiva, culminacion) ==
  IF esRetroactiva /\ culminacion <= ahora THEN "finalizada" ELSE "en_proceso"

estadoInicial(esRetroactiva, culminacion) ==
  IF esRetroactiva /\ culminacion < ahora THEN "finalizada" ELSE "en_proceso"

\* POST /tareas/crear, the controller with retroactive tasks
crear(nombre, divisionId, inicio, culminacion, esRetroactiva) ==
  /\ nextTareaId <= MaxTareas
  /\ IF \/ culminacion <= inicio
        \/ ~esRetroactiva /\ culminacion < ahora - Hora
        \/ culminacion - inicio < Hora
        \/ divisionId \notin DOMAIN divisiones
     THEN /\ last' = Resultado("crear", 0, "error")
          /\ UNCHANGED <<tareas, nextTareaId>>
     ELSE /\ TareaCreate([nombre |-> nombre, divisionId |-> divisionId,
                          fechaInicio |-> inicio, fechaCulminacion |-> culminacion,
                          estado |-> estadoInicial(esRetroactiva, culminacion)])
          /\ last' = Resultado("crear", nextTareaId, "ok")
  /\ UNCHANGED <<divisiones, nextDivisionId, reqsDivision, municipios, entregas, nextEntregaId, nextMunicipioId,
                 consulta, ahora, reqs, escrituras>>

\* POST /tareas/crear, the controller without retroactive tasks
crear_v1(nombre, divisionId, inicio, culminacion) ==
  /\ nextTareaId <= MaxTareas
  /\ IF inicio > culminacion \/ divisionId \notin DOMAIN divisiones
     THEN /\ last' = Resultado("crear_v1", 0, "error")
          /\ UNCHANGED <<tareas, nextTareaId>>
     ELSE /\ TareaCreate([nombre |-> nombre, divisionId |-> divisionId,
                          fechaInicio |-> inicio, fechaCulminacion |-> culminacion,
                          estado |-> "en_proceso"])
          /\ last' = Resultado("crear_v1", nextTareaId, "ok")
  /\ UNCHANGED <<divisiones, nextDivisionId, reqsDivision, municipios, entregas, nextEntregaId, nextMunicipioId,
                 consulta, ahora, reqs, escrituras>>

Vencidas_sinEstado == {t \in DOMAIN tareas : tareas[t].fechaCulminacion <= ahora}

\* the rows Tarea.update({estado:'finalizada'}, {where}) matches
Vencidas == {t \in DOMAIN tareas :
               tareas[t].estado = "en_proceso" /\ tareas[t].fechaCulminacion <= ahora}

Vencidas_lt == {t \in DOMAIN tareas :
               tareas[t].estado = "en_proceso" /\ tareas[t].fechaCulminacion < ahora}

\* one UPDATE statement setting estado = 'finalizada' on the rows ids
UpdateFinalizada(ids) ==
  /\ tareas' = [t \in DOMAIN tareas |->
                  IF t \in ids THEN [tareas[t] EXCEPT !.estado = "finalizada"]
                  ELSE tareas[t]]
  /\ escrituras' = [t \in DOMAIN escrituras |->
                  IF t \in ids /\ t \in DOMAIN tareas THEN escrituras[t] + 1
                  ELSE escrituras[t]]

\* an updater that recomputes estado from the deadline for every row
actualizarEstadoTareas_recalcula ==
  /\ tareas' = [t \in DOMAIN tareas |->
       [tareas[t] EXCEPT !.estado =
          IF tareas[t].fechaCulminacion <= ahora THEN "finalizada" ELSE "en_proceso"]]
  /\ last' = Resultado("actualizarEstadoTareas", Cardinality(DOMAIN tareas), "ok")
  /\ UNCHANGED <<divisiones, nextDivisionId, reqsDivision, municipios, entregas, nextTareaId, nextEntregaId,
                 nextMunicipioId, consulta, ahora, reqs, escrituras>>

\* utils/actualizarEstadoTareas, the version with Op.lte
actualizarEstadoTareas ==
  /\ UpdateFinalizada(Vencidas)
  /\ last' = Resultado("actualizarEstadoTareas", Cardinality(Vencidas), "ok")
  /\ UNCHANGED <<divisiones, nextDivisionId, reqsDivision, municipios, entregas, nextTareaId, nextEntregaId,
                 nextMunicipioId, consulta, ahora, reqs>>

\* utils/actualizarEstadoTareas, the version with Op.lt
actualizarEstadoTareas_lt ==
  /\ UpdateFinalizada(Vencidas_lt)
  /\ last' = Resultado("actualizarEstadoTareas_lt", Cardinality(Vencidas_lt), "ok")
  /\ UNCHANGED <<divisiones, nextDivisionId, reqsDivision, municipios, entregas, nextTareaId, nextEntregaId,
                 nextMunicipioId, consulta, ahora, reqs>>

\* POST /tareas/finalizar/:id up to the end of its checks (Tarea.findByPk)
finalizarTareaManual_find(r, id) ==
  /\ reqs[r] = 0
  /\ IF id \notin DOMAIN tareas
     THEN /\ last' = Resultado("finalizarTareaManual", id, "tarea_no_encontrada")
          /\ UNCHANGED reqs
     ELSE IF tareas[id].estado = "finalizada"
     THEN /\ last' = Resultado("finalizarTareaManual", id, "tarea_ya_finalizada")
          /\ UNCHANGED reqs
     ELSE /\ reqs' = [reqs EXCEPT ![r] = id]
          /\ last' = Resultado("finalizarTareaManual_find", id, "en_proceso")
  /\ UNCHANGED <<store, reqsDivision, consulta, ahora, escrituras>>

\* POST /tareas/finalizar/:id from tarea.update({estado:'finalizada'}) on
finalizarTareaManual_update(r) ==
  /\ reqs[r] # 0
  /\ UpdateFinalizada({reqs[r]})
  /\ reqs' = [reqs EXCEPT ![r] = 0]
  /\ last' = Resultado("finalizarTareaManual", reqs[r], "tarea_finalizada")
  /\ UNCHANGED <<divisiones, nextDivisionId, reqsDivision, municipios, entregas, nextTareaId, nextEntregaId,
                 nextMunicipioId, consulta, ahora>>

\* POST /tareas/eliminar/:id; the entregas of the task go with it (CASCADE)
eliminarTarea(id) ==
  /\ IF id \notin DOMAIN tareas
     THEN /\ last' = Resultado("eliminarTarea", id, "tarea_no_encontrada")
          /\ UNCHANGED <<tareas, entregas>>
     ELSE /\ tareas' = Quitar(tareas, id)
          /\ entregas' = [e \in {x \in DOMAIN entregas : entregas[x].tareaId # id}
                            |-> entregas[e]]
          /\ last' = Resultado("eliminarTarea", id, "tarea_eliminada")
  /\ UNCHANGED <<divisiones, nextDivisionId, reqsDivision, municipios, nextTareaId, nextEntregaId, nextMunicipioId,
                 consulta, ahora, reqs, escrituras>>

(* ------------------------------ entregas ------------------------------ *)
\* POST /tareas/agregar-entrega
agregarEntrega(tareaId, municipioId, fechaHoraEntrega) ==
  /\ nextEntregaId <= MaxEntregas
  /\ IF tareaId \notin DOMAIN tareas \/ municipioId \notin DOMAIN municipios
     THEN /\ last' = Resultado("agregarEntrega", 0, "error_servidor")
          /\ UNCHANGED <<entregas, nextEntregaId>>
     ELSE /\ entregas' = entregas @@
               (nextEntregaId :> [tareaId |-> tareaId, municipioId |-> municipioId,
                                  fechaHoraEntrega |-> fechaHoraEntrega,
                                  calificacion |-> SinCalificacion])
          /\ nextEntregaId' = nextEntregaId + 1
          /\ last' = Resultado("agregarEntrega", nextEntregaId, "entrega_agregada")
  /\ UNCHANGED <<divisiones, nextDivisionId, reqsDivision, municipios, tareas, nextTareaId, nextMunicipioId,
                 consulta, ahora, reqs, escrituras>>

\* POST /tareas/entrega/eliminar/:id
eliminarEntrega(id) ==
  /\ IF id \notin DOMAIN entregas
     THEN /\ last' = Resultado("eliminarEntrega", id, "entrega_no_encontrada")
          /\ UNCHANGED entregas
     ELSE /\ entregas' = Quitar(entregas, id)
          /\ last' = Resultado("eliminarEntrega", id, "entrega_eliminada")
  /\ UNCHANGED <<divisiones, nextDivisionId, reqsDivision, municipios, tareas, nextTareaId, nextEntregaId,
                 nextMunicipioId, consulta, ahora, reqs, escrituras>>

\* a handler that stores whatever number it is given
calificarEntrega_sinValidar(id, calif) ==
  /\ IF id \notin DOMAIN entregas
     THEN /\ last' = Resultado("calificarEntrega", id, "entrega_no_encontrada")
          /\ UNCHANGED entregas
     ELSE /\ entregas' = [entregas EXCEPT ![id].calificacion = <<calif>>]
          /\ last' = Resultado("calificarEntrega", id, "entrega_calificada")
  /\ UNCHANGED <<divisiones, nextDivisionId, reqsDivision, municipios, tareas,
                 nextTareaId, nextEntregaId, nextMunicipioId, consulta, ahora, reqs,
                 escrituras>>

\* POST /tareas/entrega/calificar/:id
calificarEntrega(id, calif) ==
  /\ IF calif < 0 \/ calif > 100
     THEN /\ last' = Resultado("calificarEntrega", id, "calificacion_invalida")
          /\ UNCHANGED entregas
     ELSE IF id \notin DOMAIN entregas
     THEN /\ last' = Resultado("calificarEntrega", id, "entrega_no_encontrada")
          /\ UNCHANGED entregas
     ELSE /\ entregas' = [entregas EXCEPT ![id].calificacion = <<calif>>]
          /\ last' = Resultado("calificarEntrega", id, "entrega_calificada")
  /\ UNCHANGED <<divisiones, nextDivisionId, reqsDivision, municipios, tareas, nextTareaId, nextEntregaId,
                 nextMunicipioId, consulta, ahora, reqs, escrituras>>

(* ----------------------------- municipios ----------------------------- *)
\* POST /municipios/crear
crearMunicipio(nombre) ==
  /\ nextMunicipioId <= MaxMunicipios
  /\ IF \E m \in DOMAIN municipios : municipios[m] = nombre
     THEN /\ last' = Resultado("crearMunicipio", 0, "ya_existe")
          /\ UNCHANGED <<municipios, nextMunicipioId>>
     ELSE /\ municipios' = municipios @@ (nextMunicipioId :> nombre)
          /\ nextMunicipioId' = nextMunicipioId + 1
          /\ last' = Resultado("crearMunicipio", nextMunicipioId, "creado")
  /\ UNCHANGED <<divisiones, nextDivisionId, reqsDivision, tareas, entregas, nextTareaId, nextEntregaId,
                 consulta, ahora, reqs, escrituras>>

\* POST /municipios/:id/eliminar
eliminarMunicipio(id) ==
  /\ IF id \notin DOMAIN municipios
     THEN /\ last' = Resultado("eliminarMunicipio", id, "no_encontrado")
          /\ UNCHANGED municipios
     ELSE IF \E e \in DOMAIN entregas : entregas[e].municipioId = id
     THEN /\ last' = Resultado("eliminarMunicipio", id, "tiene_entregas")
          /\ UNCHANGED municipios
     ELSE /\ municipios' = Quitar(municipios, id)
          /\ last' = Resultado("eliminarMunicipio", id, "eliminado")
  /\ UNCHANGED <<divisiones, nextDivisionId, reqsDivision, tareas, entregas, nextTareaId, nextEntregaId,
                 nextMunicipioId, consulta, ahora, reqs, escrituras>>

(* ----------------------------- divisiones ------------------------------ *)
\* POST /divisiones/crear
crearDivision(nombre) ==
  /\ nextDivisionId <= MaxDivisiones
  /\ IF \E d \in DOMAIN divisiones : divisiones[d] = nombre
     THEN /\ last' = Resultado("crearDivision", 0, "ya_existe")
          /\ UNCHANGED <<divisiones, nextDivisionId>>
     ELSE /\ divisiones' = divisiones @@ (nextDivisionId :> nombre)
          /\ nextDivisionId' = nextDivisionId + 1
          /\ last' = Resultado("crearDivision", nextDivisionId, "creada")
  /\ UNCHANGED <<municipios, tareas, entregas, nextTareaId, nextEntregaId,
                 nextMunicipioId, reqsDivision, consulta, ahora, reqs, escrituras>>

\* POST /divisiones/:id/eliminar up to the end of its checks
\* (Division.findByPk, Tarea.count)
eliminarDivision_count(id) ==
  /\ id \notin reqsDivision
  /\ IF id \notin DOMAIN divisiones
     THEN /\ last' = Resultado("eliminarDivision", id, "no_encontrada")
          /\ UNCHANGED reqsDivision
     ELSE IF \E t \in DOMAIN tareas : tareas[t].divisionId = id
     THEN /\ last' = Resultado("eliminarDivision", id, "tiene_tareas")
          /\ UNCHANGED reqsDivision
     ELSE /\ reqsDivision' = reqsDivision \cup {id}
          /\ last' = Resultado("eliminarDivision_count", id, "sin_tareas")
  /\ UNCHANGED <<store, consulta, ahora, reqs, escrituras>>

\* POST /divisiones/:id/eliminar from division.destroy() on.  When a task
\* refers to the row by now, the foreign key of tareas.divisionId decides:
\* the DELETE fails and the handler answers with its error, or it cascades
\* to the tasks of the division and to their entregas
eliminarDivision_destroy(id) ==
  /\ id \in reqsDivision
  /\ reqsDivision' = reqsDivision \ {id}
  /\ \/ /\ \E t \in DOMAIN tareas : tareas[t].divisionId = id
        /\ last' = Resultado("eliminarDivision", id, "error")
        /\ UNCHANGED <<divisiones, tareas, entregas>>
     \/ /\ divisiones' = Quitar(divisiones, id)
        /\ tareas' = [t \in {x \in DOMAIN tareas : tareas[x].divisionId # id}
                        |-> tareas[t]]
        /\ entregas' = [e \in {x \in DOMAIN entregas :
                                  tareas[entregas[x].tareaId].divisionId # id}
                          |-> entregas[e]]
        /\ last' = Resultado("eliminarDivision", id, "eliminada")
  /\ UNCHANGED <<municipios, nextTareaId, nextEntregaId, nextMunicipioId,
                 nextDivisionId, consulta, ahora, reqs, escrituras>>

(* ------------------------ arithmetic of the reports ------------------- *)
\* Math.round(n / d) for n >= 0, d > 0: the nearest integer, halves upwards
RoundDiv(n, d) == (2 * n + d) \div (2 * d)

\* one step of a long division by b: the quotient and remainder <<q, r>> of
\* some x by b become those of m * x (the pair is bound once, as a value)
PasoDivision(qr, b, m) ==
  CHOOSE x \in {<<m * p[1] + (m * p[2]) \div b, (m * p[2]) % b>> : p \in {qr}} :
    TRUE

\* Math.round(x * 100) / 100 of x = (a / b) * 100, as a number of hundredths;
\* the long division, by the factors of 10000 = 5^4 * 2^4, keeps the
\* intermediate products within 32 bits
Round2Pct(a, b) ==
  LET d0 == <<a \div b, a % b>>
      d1 == PasoDivision(PasoDivision(d0, b, 5), b, 5)
      d2 == PasoDivision(PasoDivision(d1, b, 5), b, 5)
      d3 == PasoDivision(PasoDivision(d2, b, 2), b, 2)
      d4 == PasoDivision(PasoDivision(d3, b, 2), b, 2)
  IN CHOOSE x \in {p[1] + (IF 2 * p[2] >= b THEN 1 ELSE 0) : p \in {d4}} : TRUE

RECURSIVE Suma(_)
Suma(s) == IF s = <<>> THEN 0 ELSE Head(s) + Suma(Tail(s))

\* the ids of the rows of entregas with a given municipioId / tareaId, by rowid
EntregasDeMunicipio(m) ==
  SetToSeq({e \in DOMAIN entregas : entregas[e].municipioId = m})

EntregasDe(t, m) ==
  SetToSeq({e \in DOMAIN entregas :
              entregas[e].tareaId = t /\ entregas[e].municipioId = m})

(* ------------------- services/performanceService.ts ------------------- *)
CHART_COLORS ==
  <<"#3B82F6", "#10B981", "#F59E0B", "#EF4444", "#8B5CF6", "#EC4899", "#14B8A6",
    "#F97316", "#6366F1", "#84CC16", "#06B6D4", "#F43F5E", "#A855F7", "#22C55E",
    "#FBBF24">>

\* takes the palette from its second colour on
generateColor_desplazado(index) == CHART_COLORS[((index + 1) % Len(CHART_COLORS)) + 1]

generateColor(index) == CHART_COLORS[(index % Len(CHART_COLORS)) + 1]

\* pushes the name of the task for every delivery, seen before or not
RECURSIVE uniqueTasks_pushSiempre(_, _, _)
uniqueTasks_pushSiempre(es, uniqueTaskIds, actividadesCompletadas) ==
  IF es = <<>>
  THEN [uniqueTaskIds |-> uniqueTaskIds, actividadesCompletadas |-> actividadesCompletadas]
  ELSE LET t == entregas[Head(es)].tareaId
       IN IF t \in DOMAIN tareas
          THEN uniqueTasks_pushSiempre(Tail(es), uniqueTaskIds \cup {t},
                                       Append(actividadesCompletadas, tareas[t].nombre))
          ELSE uniqueTasks_pushSiempre(Tail(es), uniqueTaskIds, actividadesCompletadas)

\* the forEach over the deliveries of one municipality: the ids of the tasks
\* seen so far and the names pushed, a delivery whose task is gone is skipped
RECURSIVE uniqueTasks(_, _, _)
uniqueTasks(es, uniqueTaskIds, actividadesCompletadas) ==
  IF es = <<>>
  THEN [uniqueTaskIds |-> uniqueTaskIds, actividadesCompletadas |-> actividadesCompletadas]
  ELSE LET t == entregas[Head(es)].tareaId
       IN IF t \in DOMAIN tareas /\ t \notin uniqueTaskIds
          THEN uniqueTasks(Tail(es), uniqueTaskIds \cup {t},
                           Append(actividadesCompletadas, tareas[t].nombre))
          ELSE uniqueTasks(Tail(es), uniqueTaskIds, actividadesCompletadas)

\* porcentajeCompletado, in hundredths of a percent point
porcentajeCompletado(tareasCompletadas, totalTareas) ==
  IF totalTareas > 0 THEN RoundDiv(tareasCompletadas * 10000, totalTareas) ELSE 0

\* counts the deliveries of the municipality instead of its distinct tasks
MunicipalityPerformance_cuentaEntregas(ms, i) ==
  LET m == ms[i + 1]
      u == uniqueTasks(EntregasDeMunicipio(m), {}, <<>>)
      totalTareas == Cardinality(DOMAIN tareas)
      tareasCompletadas == Len(EntregasDeMunicipio(m))
  IN [municipioId |-> m,
      municipioNombre |-> municipios[m],
      totalTareas |-> totalTareas,
      tareasCompletadas |-> tareasCompletadas,
      porcentajeCompletado |-> porcentajeCompletado(tareasCompletadas, totalTareas),
      actividadesCompletadas |-> u.actividadesCompletadas,
      color |-> generateColor(i)]

\* the body of the loop for the municipality m, named nombre, at index i:
\* the deliveries of m are read now, totalTareas was read before the loop
performanceData_push(m, nombre, i, totalTareas) ==
  LET u == uniqueTasks(EntregasDeMunicipio(m), {}, <<>>)
      tareasCompletadas == Cardinality(u.uniqueTaskIds)
  IN [municipioId |-> m,
      municipioNombre |-> nombre,
      totalTareas |-> totalTareas,
      tareasCompletadas |-> tareasCompletadas,
      porcentajeCompletado |-> porcentajeCompletado(tareasCompletadas, totalTareas),
      actividadesCompletadas |-> u.actividadesCompletadas,
      color |-> generateColor(i)]

\* the entry of the municipality at position i (from 0) of the name order
MunicipalityPerformance(ms, i) ==
  performanceData_push(ms[i + 1], municipios[ms[i + 1]], i, Cardinality(DOMAIN tareas))

getMunicipalityPerformanceData ==
  LET ms == OrdenPorNombre(municipios, DOMAIN municipios)
  IN [i \in 1..Len(ms) |-> MunicipalityPerformance(ms, i - 1)]

\* the model's calendar: month k is the k-th stretch of DiasMes days
InicioMes(k) == k * DiasMes * Dia

\* new Date(year, month - 1, 1) and new Date(year, month, 0, 23, 59, 59)
startDate(k) == InicioMes(k)
endDate(k) == InicioMes(k + 1) - Segundo

\* the query without its third branch, the task that spans the range
EnRango_sinAbarcar(t, desde, hasta) ==
  \/ tareas[t].fechaInicio >= desde /\ tareas[t].fechaInicio <= hasta
  \/ tareas[t].fechaCulminacion >= desde /\ tareas[t].fechaCulminacion <= hasta

\* the three-way OR of the task query, for the range [desde, hasta]
EnRango(t, desde, hasta) ==
  \/ tareas[t].fechaInicio >= desde /\ tareas[t].fechaInicio <= hasta
  \/ tareas[t].fechaCulminacion >= desde /\ tareas[t].fechaCulminacion <= hasta
  \/ tareas[t].fechaInicio <= desde /\ tareas[t].fechaCulminacion >= hasta

hasEntrega(t, m) ==
  \E e \in DOMAIN entregas : entregas[e].tareaId = t /\ entregas[e].municipioId = m

\* one row of divisionData, for the tasks ts of the month
DivisionPerformanceData(ts, d, m) ==
  LET tareasDivision == {t \in ts : tareas[t].divisionId = d}
      tareasAsignadas == Cardinality(tareasDivision)
      tareasCompletadas == Cardinality({t \in tareasDivision : hasEntrega(t, m)})
  IN [divisionId |-> d,
      divisionNombre |-> divisiones[d],
      tareasAsignadas |-> tareasAsignadas,
      tareasCompletadas |-> tareasCompletadas,
      porcentaje |-> IF tareasAsignadas > 0
                     THEN Round2Pct(tareasCompletadas, tareasAsignadas) ELSE 0]

\* lists only the divisions with a completed task and adds every division
\* to the totals
MunicipalityMonthlyPerformance_conCompletadas(ts, m) ==
  LET ds == OrdenPorNombre(divisiones, DOMAIN divisiones)
      todas == [i \in 1..Len(ds) |-> DivisionPerformanceData(ts, ds[i], m)]
      conCompletadas(i) == todas[i].tareasCompletadas > 0
      idx == SelectSeq([i \in 1..Len(ds) |-> i], conCompletadas)
      divisionData == [j \in 1..Len(idx) |-> todas[idx[j]]]
      totalTareasAsignadas ==
        Suma([j \in 1..Len(todas) |-> todas[j].tareasAsignadas])
      totalTareasCompletadas ==
        Suma([j \in 1..Len(todas) |-> todas[j].tareasCompletadas])
  IN [municipioId |-> m,
      municipioNombre |-> municipios[m],
      divisionData |-> divisionData,
      totalTareasAsignadas |-> totalTareasAsignadas,
      totalTareasCompletadas |-> totalTareasCompletadas,
      porcentajeTotal |-> IF totalTareasAsignadas > 0
                          THEN Round2Pct(totalTareasCompletadas, totalTareasAsignadas)
                          ELSE 0]

MunicipalityMonthlyPerformance(ts, m) ==
  LET ds == OrdenPorNombre(divisiones, DOMAIN divisiones)
      todas == [i \in 1..Len(ds) |-> DivisionPerformanceData(ts, ds[i], m)]
      conTareas(i) == todas[i].tareasAsignadas > 0
      idx == SelectSeq([i \in 1..Len(ds) |-> i], conTareas)
      divisionData == [j \in 1..Len(idx) |-> todas[idx[j]]]
      totalTareasAsignadas ==
        Suma([j \in 1..Len(divisionData) |-> divisionData[j].tareasAsignadas])
      totalTareasCompletadas ==
        Suma([j \in 1..Len(divisionData) |-> divisionData[j].tareasCompletadas])
  IN [municipioId |-> m,
      municipioNombre |-> municipios[m],
      divisionData |-> divisionData,
      totalTareasAsignadas |-> totalTareasAsignadas,
      totalTareasCompletadas |-> totalTareasCompletadas,
      porcentajeTotal |-> IF totalTareasAsignadas > 0
                          THEN Round2Pct(totalTareasCompletadas, totalTareasAsignadas)
                          ELSE 0]

\* a task query that returns only the tasks that start in the month
TareasDelMes_porInicio(k) ==
  {t \in DOMAIN tareas :
     tareas[t].fechaInicio >= startDate(k) /\ tareas[t].fechaInicio <= endDate(k)}

\* the task query of the month: the ids of the rows it returns
TareasDelMes(k) == {t \in DOMAIN tareas : EnRango(t, startDate(k), endDate(k))}

\* the loop over the municipalities ms, for the tasks ts of the month
MonthlyPerformanceData(k, ts, ms) ==
  [mes |-> k,
   municipios |-> [i \in 1..Len(ms) |-> MunicipalityMonthlyPerformance(ts, ms[i])]]

getMonthlyPerformance(k) ==
  MonthlyPerformanceData(k, TareasDelMes(k), OrdenPorNombre(municipios, DOMAIN municipios))

(* -------------------- services/deliveryService.ts --------------------- *)
\* the rows of entregas with tareaId, by rowid
EntregasDeTarea(tareaId) ==
  SetToSeq({e \in DOMAIN entregas : entregas[e].tareaId = tareaId})

\* GROUP BY municipioId over the rows es: one row for each municipioId,
\* where vistos are the groups met so far
RECURSIVE GroupByMunicipio(_, _)
GroupByMunicipio(es, vistos) ==
  IF es = <<>> THEN <<>>
  ELSE IF entregas[Head(es)].municipioId \in vistos
  THEN GroupByMunicipio(Tail(es), vistos)
  ELSE <<entregas[Head(es)].municipioId>>
         \o GroupByMunicipio(Tail(es), vistos \cup {entregas[Head(es)].municipioId})

DeliveryCountResult(uniqueMunicipalityIds) ==
  [totalMunicipalities |-> Len(uniqueMunicipalityIds),
   uniqueMunicipalityIds |-> uniqueMunicipalityIds]

\* the query without GROUP BY: one row for each delivery
countUniqueMunicipalitiesForTask_sinGroup(tareaId) ==
  DeliveryCountResult([i \in 1..Len(EntregasDeTarea(tareaId)) |->
                         entregas[EntregasDeTarea(tareaId)[i]].municipioId])

countUniqueMunicipalitiesForTask(tareaId) ==
  DeliveryCountResult(GroupByMunicipio(EntregasDeTarea(tareaId), {}))

\* ORDER BY fechaHoraEntrega ASC over the rows es: the row with the least
\* fechaHoraEntrega first, rows with equal fechaHoraEntrega by rowid
RECURSIVE OrderByFechaAsc(_)
OrderByFechaAsc(es) ==
  IF es = {} THEN <<>>
  ELSE LET x == CHOOSE e \in es : \A f \in es :
                  \/ entregas[e].fechaHoraEntrega < entregas[f].fechaHoraEntrega
                  \/ entregas[e].fechaHoraEntrega = entregas[f].fechaHoraEntrega /\ e <= f
       IN <<x>> \o OrderByFechaAsc(es \ {x})

\* ORDER BY fechaHoraEntrega DESC
RECURSIVE OrderByFechaDesc(_)
OrderByFechaDesc(es) ==
  IF es = {} THEN <<>>
  ELSE LET x == CHOOSE e \in es : \A f \in es :
                  \/ entregas[e].fechaHoraEntrega > entregas[f].fechaHoraEntrega
                  \/ entregas[e].fechaHoraEntrega = entregas[f].fechaHoraEntrega /\ e <= f
       IN <<x>> \o OrderByFechaDesc(es \ {x})

\* the deliveries of the task latest first
getSortedDeliveriesForTask_desc(tareaId) ==
  OrderByFechaDesc({e \in DOMAIN entregas : entregas[e].tareaId = tareaId})

\* the ids of the rows returned, in the order returned
getSortedDeliveriesForTask(tareaId) ==
  OrderByFechaAsc({e \in DOMAIN entregas : entregas[e].tareaId = tareaId})

(* --------------- services/advancedEvaluationService.ts ---------------- *)
\* Array.prototype.sort((a, b) => b.key - a.key), which is stable: the
\* positions of keys by key descending, equal keys in their input order
RECURSIVE OrdenDesc(_, _)
OrdenDesc(keys, idx) ==
  IF idx = {} THEN <<>>
  ELSE LET x == CHOOSE i \in idx : \A j \in idx :
                  \/ keys[i] > keys[j]
                  \/ keys[i] = keys[j] /\ i <= j
       IN <<x>> \o OrdenDesc(keys, idx \ {x})

\* scores the share of the window that has elapsed instead of what is left
calcularPuntualidad_invertida(fechaEntrega, fechaInicio, fechaLimite) ==
  LET tiempoTotal == fechaLimite - fechaInicio
      tiempoTranscurrido == fechaEntrega - fechaInicio
  IN IF tiempoTranscurrido <= 0 THEN 10000
     ELSE IF tiempoTranscurrido >= tiempoTotal THEN 0
     ELSE Round2Pct(tiempoTranscurrido, tiempoTotal)

\* scores a delivery after the deadline like one before the start
calcularPuntualidad_tardia(fechaEntrega, fechaInicio, fechaLimite) ==
  LET tiempoTotal == fechaLimite - fechaInicio
      tiempoTranscurrido == fechaEntrega - fechaInicio
  IN IF tiempoTranscurrido <= 0 \/ tiempoTranscurrido > tiempoTotal THEN 10000
     ELSE IF tiempoTranscurrido = tiempoTotal THEN 0
     ELSE Round2Pct(tiempoTotal - tiempoTranscurrido, tiempoTotal)

\* the score of one delivery, in hundredths of a point; the code's
\* 100 - (tiempoTranscurrido / tiempoTotal) * 100 is
\* ((tiempoTotal - tiempoTranscurrido) / tiempoTotal) * 100
calcularPuntualidad(fechaEntrega, fechaInicio, fechaLimite) ==
  LET tiempoTotal == fechaLimite - fechaInicio
      tiempoTranscurrido == fechaEntrega - fechaInicio
  IN IF tiempoTranscurrido <= 0 THEN 10000
     ELSE IF tiempoTranscurrido >= tiempoTotal THEN 0
     ELSE Round2Pct(tiempoTotal - tiempoTranscurrido, tiempoTotal)

\* filtros: divisionId 0 is no division filter, rango <<>> is no date range
SinFiltros == [divisionId |-> 0, rango |-> <<>>]

\* the rows of Tarea.findAll({where: whereClause, order: fechaInicio DESC})
TareasFiltradas(filtros) ==
  LET ts == {t \in DOMAIN tareas :
               /\ filtros.divisionId # 0 => tareas[t].divisionId = filtros.divisionId
               /\ filtros.rango # <<>> => EnRango(t, filtros.rango[1], filtros.rango[2])}
      ids == SetToSeq(ts)
      orden == OrdenDesc([i \in 1..Len(ids) |-> tareas[ids[i]].fechaInicio], 1..Len(ids))
  IN [i \in 1..Len(ids) |-> ids[orden[i]]]

esPuntual_lt(e) == entregas[e].fechaHoraEntrega < tareas[entregas[e].tareaId].fechaCulminacion

esPuntual(e) == entregas[e].fechaHoraEntrega <= tareas[entregas[e].tareaId].fechaCulminacion

\* the body of the loop over the tasks, for task t and municipality m: the
\* detail record of the task and, in its last five fields, what the loop adds
\* to the running totals of the municipality
TaskEvaluation(t, m) ==
  LET es == EntregasDe(t, m)
      cantidadEntregas == Len(es)
      puntualidades == [i \in 1..Len(es) |->
                          calcularPuntualidad(entregas[es[i]].fechaHoraEntrega,
                                              tareas[t].fechaInicio,
                                              tareas[t].fechaCulminacion)]
      calificadas == SelectSeq(es, LAMBDA e : entregas[e].calificacion # SinCalificacion)
      calificaciones == [i \in 1..Len(calificadas) |-> entregas[calificadas[i]].calificacion[1]]
      fechas == {entregas[es[i]].fechaHoraEntrega : i \in 1..Len(es)}
  IN [tareaId |-> t,
      tareaNombre |-> tareas[t].nombre,
      entregado |-> cantidadEntregas > 0,
      cantidadEntregas |-> cantidadEntregas,
      puntualidad |-> IF cantidadEntregas > 0
                      THEN RoundDiv(Suma(puntualidades), cantidadEntregas) ELSE 0,
      calidad |-> IF Len(calificadas) > 0
                  THEN RoundDiv(100 * Suma(calificaciones), Len(calificadas)) ELSE 0,
      primeraEntrega |-> IF fechas = {} THEN <<>>
                         ELSE <<CHOOSE f \in fechas : \A g \in fechas : f <= g>>,
      fechaLimite |-> tareas[t].fechaCulminacion,
      entregasPuntuales |-> Len(SelectSeq(es, esPuntual)),
      entregasTardias |-> Len(SelectSeq(es, LAMBDA e : ~esPuntual(e))),
      sumaPuntualidad |-> Suma(puntualidades),
      sumaCalidad |-> Suma(calificaciones),
      entregasCalificadas |-> Len(calificadas)]

\* the quantity term without Math.min: promedioEntregasPorTarea * 20 * 0.10
terminoCantidad_sinTope(totalEntregas, tareasCompletadas) ==
  IF tareasCompletadas = 0 THEN 0 ELSE 200 * totalEntregas

\* Math.min(promedioEntregasPorTarea * 20, 100) * 0.10 in hundredths of a
\* point, multiplied by tareasCompletadas (the denominator of the average)
terminoCantidad(totalEntregas, tareasCompletadas) ==
  IF tareasCompletadas = 0 THEN 0
  ELSE IF totalEntregas * 20 >= 100 * tareasCompletadas
  THEN 1000 * tareasCompletadas ELSE 200 * totalEntregas

\* puntuacionFinal in hundredths: 40% coverage, 30% punctuality, 20% quality,
\* 10% quantity capped at 100, computed exactly and rounded once
puntuacionFinal(totalTareas, tareasCompletadas, totalEntregas, sumaPuntualidad, sumaCalidad, entregasCalificadas) ==
  LET a == IF totalTareas > 0 THEN totalTareas ELSE 1
      b == IF totalEntregas > 0 THEN 10 * totalEntregas ELSE 1
      c == IF entregasCalificadas > 0 THEN entregasCalificadas ELSE 1
      e == IF tareasCompletadas > 0 THEN tareasCompletadas ELSE 1
      cobertura == IF totalTareas > 0 THEN 4000 * tareasCompletadas ELSE 0
      puntualidad == IF totalEntregas > 0 THEN 3 * sumaPuntualidad ELSE 0
      calidad == IF entregasCalificadas > 0 THEN 20 * sumaCalidad ELSE 0
      cantidad == terminoCantidad(totalEntregas, tareasCompletadas)
  IN RoundDiv(cobertura * b * c * e + puntualidad * a * c * e
              + calidad * a * b * e + cantidad * a * b * c,
              a * b * c * e)

\* the overall metrics, from "Calculate overall metrics" to the return;
\* percentages and averages are in hundredths
ComprehensiveEvaluation(municipioId, detallesTareas) ==
  LET totalTareas == Len(detallesTareas)
      tareasCompletadas ==
        Suma([i \in 1..Len(detallesTareas) |-> IF detallesTareas[i].entregado THEN 1 ELSE 0])
      totalEntregas ==
        Suma([i \in 1..Len(detallesTareas) |-> detallesTareas[i].cantidadEntregas])
      entregasPuntuales ==
        Suma([i \in 1..Len(detallesTareas) |-> detallesTareas[i].entregasPuntuales])
      entregasTardias ==
        Suma([i \in 1..Len(detallesTareas) |-> detallesTareas[i].entregasTardias])
      sumaPuntualidad ==
        Suma([i \in 1..Len(detallesTareas) |-> detallesTareas[i].sumaPuntualidad])
      sumaCalidad ==
        Suma([i \in 1..Len(detallesTareas) |-> detallesTareas[i].sumaCalidad])
      entregasCalificadas ==
        Suma([i \in 1..Len(detallesTareas) |-> detallesTareas[i].entregasCalificadas])
  IN [error |-> FALSE,
      municipioId |-> municipioId,
      municipioNombre |-> municipios[municipioId],
      totalTareas |-> totalTareas,
      tareasCompletadas |-> tareasCompletadas,
      porcentajeCobertura |-> IF totalTareas > 0
                              THEN Round2Pct(tareasCompletadas, totalTareas) ELSE 0,
      entregasPuntuales |-> entregasPuntuales,
      entregasTardias |-> entregasTardias,
      porcentajePuntualidad |-> IF totalEntregas > 0
                                THEN Round2Pct(entregasPuntuales, totalEntregas) ELSE 0,
      promedioPuntualidad |-> IF totalEntregas > 0
                              THEN RoundDiv(sumaPuntualidad, totalEntregas) ELSE 0,
      totalEntregas |-> totalEntregas,
      promedioEntregasPorTarea |-> IF tareasCompletadas > 0
                                   THEN RoundDiv(100 * totalEntregas, tareasCompletadas)
                                   ELSE 0,
      entregasCalificadas |-> entregasCalificadas,
      promedioCalidad |-> IF entregasCalificadas > 0
                          THEN RoundDiv(100 * sumaCalidad, entregasCalificadas) ELSE 0,
      puntuacionFinal |-> puntuacionFinal(totalTareas, tareasCompletadas, totalEntregas,
                                          sumaPuntualidad, sumaCalidad, entregasCalificadas),
      detallesTareas |-> detallesTareas]

\* detallesTareas after the loop over the tasks ts of the query
RECURSIVE DetallesTareas(_, _)
DetallesTareas(municipioId, ts) ==
  IF ts = <<>> THEN <<>>
  ELSE <<TaskEvaluation(Head(ts), municipioId)>> \o DetallesTareas(municipioId, Tail(ts))

EvaluarTareas(municipioId, ts) ==
  ComprehensiveEvaluation(municipioId, DetallesTareas(municipioId, ts))

\* new Error(`Municipio con ID ${municipioId} no encontrado`): the pieces of
\* the template, in order
NoEncontrado(municipioId) ==
  [error |-> TRUE, municipioId |-> municipioId,
   mensaje |-> <<"Municipio con ID ", municipioId, " no encontrado">>]

\* an evaluation that also throws when the query returns no task
getMunicipalityComprehensiveEvaluation_sinTareas(municipioId, filtros) ==
  IF municipioId \notin DOMAIN municipios \/ TareasFiltradas(filtros) = <<>>
  THEN NoEncontrado(municipioId)
  ELSE EvaluarTareas(municipioId, TareasFiltradas(filtros))

getMunicipalityComprehensiveEvaluation(municipioId, filtros) ==
  IF municipioId \notin DOMAIN municipios
  THEN NoEncontrado(municipioId)
  ELSE EvaluarTareas(municipioId, TareasFiltradas(filtros))

\* the elements of xs in the order of the positions orden
RECURSIVE Permutar(_, _)
Permutar(xs, orden) ==
  IF orden = <<>> THEN <<>> ELSE <<xs[Head(orden)]>> \o Permutar(xs, Tail(orden))

\* the evaluations left in the order of the loop, without the sort
OrdenarPorPuntuacion_sinOrdenar(evaluaciones) == evaluaciones

\* evaluaciones.sort((a, b) => b.puntuacionFinal - a.puntuacionFinal)
OrdenarPorPuntuacion(evaluaciones) ==
  Permutar(evaluaciones,
           OrdenDesc([i \in 1..Len(evaluaciones) |-> evaluaciones[i].puntuacionFinal],
                     1..Len(evaluaciones)))

\* ranking.sort((a, b) => a.valor - b.valor): the lowest value first
OrdenarPorValor_asc(ranking) ==
  Permutar(ranking,
           OrdenDesc([i \in 1..Len(ranking) |-> 0 - ranking[i].valor], 1..Len(ranking)))

\* ranking.sort((a, b) => b.valor - a.valor)
OrdenarPorValor(ranking) ==
  Permutar(ranking,
           OrdenDesc([i \in 1..Len(ranking) |-> ranking[i].valor], 1..Len(ranking)))

\* the loop over the municipalities ms, each evaluated over the tasks ts
RECURSIVE EvaluarTodos(_, _)
EvaluarTodos(ms, ts) ==
  IF ms = <<>> THEN <<>>
  ELSE <<EvaluarTareas(Head(ms), ts)>> \o EvaluarTodos(Tail(ms), ts)

\* lists only the municipalities that have a delivery (an inner join)
getAllMunicipalitiesComprehensiveEvaluation_conEntregas(filtros) ==
  OrdenarPorPuntuacion(
    EvaluarTodos(OrdenPorNombre(municipios,
                   {m \in DOMAIN municipios :
                      \E e \in DOMAIN entregas : entregas[e].municipioId = m}),
                 TareasFiltradas(filtros)))

getAllMunicipalitiesComprehensiveEvaluation(filtros) ==
  OrdenarPorPuntuacion(EvaluarTodos(OrdenPorNombre(municipios, DOMAIN municipios),
                                    TareasFiltradas(filtros)))

Metricas == {"cobertura", "puntualidad", "calidad", "cantidad", "final"}

valorDe(e, metrica) ==
  CASE metrica = "cobertura" -> e.porcentajeCobertura
    [] metrica = "puntualidad" -> e.promedioPuntualidad
    [] metrica = "calidad" -> e.promedioCalidad
    [] metrica = "cantidad" -> e.promedioEntregasPorTarea
    [] metrica = "final" -> e.puntuacionFinal

\* evaluaciones.map(e => ({municipio, valor})); Math.round(valor * 100) / 100
\* of a metric that is already a whole number of hundredths is that number
RECURSIVE Valores(_, _)
Valores(evaluaciones, metrica) ==
  IF evaluaciones = <<>> THEN <<>>
  ELSE <<[municipio |-> Head(evaluaciones).municipioNombre,
          valor |-> valorDe(Head(evaluaciones), metrica)]>>
         \o Valores(Tail(evaluaciones), metrica)

\* ranking.map((item, index) => ({...item, posicion: index + 1}))
RECURSIVE PosicionesDesde(_, _)
PosicionesDesde(ranking, index) ==
  IF ranking = <<>> THEN <<>>
  ELSE <<[municipio |-> Head(ranking).municipio, valor |-> Head(ranking).valor,
          posicion |-> index + 1]>>
         \o PosicionesDesde(Tail(ranking), index + 1)

Posiciones(ranking) == PosicionesDesde(ranking, 0)

getMunicipalityRanking(metrica, filtros) ==
  Posiciones(OrdenarPorValor(
               Valores(getAllMunicipalitiesComprehensiveEvaluation(filtros), metrica)))

(* --------------------- store failures in the services ----------------- *)
\* the message of the error a rejected store query carries
ErrorAlmacen == "SequelizeDatabaseError"

\* a call that ends in an error with the message mensaje
Rechazo(mensaje) == [error |-> TRUE, mensaje |-> mensaje]

\* a call that returns valor
Retorno(valor) == [error |-> FALSE, valor |-> valor]

\* In the operators below falla is the position, among the store queries the
\* call awaits in order, of the one that is rejected; 0 is no rejection.

\* try { Entrega.findAll } catch { throw new Error(...) }
countUniqueMunicipalitiesForTask_consulta(tareaId, falla) ==
  IF falla = 1
  THEN Rechazo("Failed to count unique municipalities for task")
  ELSE Retorno(countUniqueMunicipalitiesForTask(tareaId))

getSortedDeliveriesForTask_consulta(tareaId, falla) ==
  IF falla = 1
  THEN Rechazo("Failed to fetch sorted deliveries for task")
  ELSE Retorno(getSortedDeliveriesForTask(tareaId))

\* Municipio.findAll, Tarea.findAll and one Entrega.findAll per municipality,
\* none of them inside a try: the rejection is the rejection of the call
getMunicipalityPerformanceData_consulta(falla) ==
  IF falla \in 1..(2 + Cardinality(DOMAIN municipios))
  THEN Rechazo(ErrorAlmacen)
  ELSE Retorno(getMunicipalityPerformanceData)

\* Tarea.findAll, Municipio.findAll, Division.findAll, none inside a try
getMonthlyPerformance_consulta(k, falla) ==
  IF falla \in 1..3
  THEN Rechazo(ErrorAlmacen)
  ELSE Retorno(getMonthlyPerformance(k))

\* Municipio.findByPk and, for a municipality that exists, Tarea.findAll,
\* none inside a try
getMunicipalityComprehensiveEvaluation_consulta(municipioId, filtros, falla) ==
  IF falla = 1 \/ (falla = 2 /\ municipioId \in DOMAIN municipios)
  THEN Rechazo(ErrorAlmacen)
  ELSE getMunicipalityComprehensiveEvaluation(municipioId, filtros)

(* ------------- the coverage report, one store query at a time -------- *)
\* the rows <<id, nombre>> of table tabla in the order of the ids in ids
RECURSIVE Filas(_, _)
Filas(tabla, ids) ==
  IF ids = <<>> THEN <<>>
  ELSE <<[id |-> Head(ids), nombre |-> tabla[Head(ids)]]>> \o Filas(tabla, Tail(ids))

\* getMunicipalityPerformanceData up to the end of await Municipio.findAll
getMunicipalityPerformanceData_municipios ==
  /\ consulta = Ninguna
  /\ consulta' = [op |-> "getMunicipalityPerformanceData", pc |-> "tareas",
                  municipios |-> Filas(municipios,
                                       OrdenPorNombre(municipios, DOMAIN municipios))]
  /\ last' = Resultado("getMunicipalityPerformanceData", 0, "municipios")
  /\ UNCHANGED <<store, reqsDivision, ahora, reqs, escrituras>>

\* from there to the end of await Tarea.findAll
getMunicipalityPerformanceData_tareas ==
  /\ consulta.op = "getMunicipalityPerformanceData" /\ consulta.pc = "tareas"
  /\ consulta' = [op |-> "getMunicipalityPerformanceData", pc |-> "entregas",
                  municipios |-> consulta.municipios,
                  totalTareas |-> Cardinality(DOMAIN tareas),
                  performanceData |-> <<>>]
  /\ last' = Resultado("getMunicipalityPerformanceData", 0, "tareas")
  /\ UNCHANGED <<store, reqsDivision, ahora, reqs, escrituras>>

\* one turn of the loop: await Entrega.findAll of the next municipality,
\* with the task of each delivery, and the push of its entry
getMunicipalityPerformanceData_entregas ==
  /\ consulta.op = "getMunicipalityPerformanceData" /\ consulta.pc = "entregas"
  /\ Len(consulta.performanceData) < Len(consulta.municipios)
  /\ LET i == Len(consulta.performanceData)
         municipio == consulta.municipios[i + 1]
     IN consulta' = [consulta EXCEPT !.performanceData =
                       Append(@, performanceData_push(municipio.id, municipio.nombre, i,
                                                      consulta.totalTareas))]
  /\ last' = Resultado("getMunicipalityPerformanceData", 0, "entregas")
  /\ UNCHANGED <<store, reqsDivision, ahora, reqs, escrituras>>

\* return performanceData
getMunicipalityPerformanceData_return ==
  /\ consulta.op = "getMunicipalityPerformanceData" /\ consulta.pc = "entregas"
  /\ Len(consulta.performanceData) = Len(consulta.municipios)
  /\ consulta' = Ninguna
  /\ last' = [op |-> "getMunicipalityPerformanceData", id |-> 0, res |-> "ok",
              performanceData |-> consulta.performanceData]
  /\ UNCHANGED <<store, reqsDivision, ahora, reqs, escrituras>>

(* ------------ the evaluation of all, one municipality at a time ------ *)
\* getAllMunicipalitiesComprehensiveEvaluation up to the end of await
\* Municipio.findAll
getAllMunicipalitiesComprehensiveEvaluation_findAll(filtros) ==
  /\ consulta = Ninguna
  /\ consulta' = [op |-> "getAllMunicipalitiesComprehensiveEvaluation",
                  filtros |-> filtros,
                  municipios |-> OrdenPorNombre(municipios, DOMAIN municipios),
                  evaluaciones |-> <<>>]
  /\ last' = Resultado("getAllMunicipalitiesComprehensiveEvaluation", 0, "findAll")
  /\ UNCHANGED <<store, reqsDivision, ahora, reqs, escrituras>>

\* one turn of the loop: await getMunicipalityComprehensiveEvaluation of the
\* next municipality listed, by its id.  Its error is not caught, so it ends
\* the call.
getAllMunicipalitiesComprehensiveEvaluation_evaluar ==
  /\ consulta.op = "getAllMunicipalitiesComprehensiveEvaluation"
  /\ Len(consulta.evaluaciones) < Len(consulta.municipios)
  /\ LET id == consulta.municipios[Len(consulta.evaluaciones) + 1]
         evaluacion == getMunicipalityComprehensiveEvaluation(id, consulta.filtros)
     IN IF evaluacion.error
        THEN /\ consulta' = Ninguna
             /\ last' = [op |-> "getAllMunicipalitiesComprehensiveEvaluation",
                         id |-> id, res |-> "error", mensaje |-> evaluacion.mensaje]
        ELSE /\ consulta' = [consulta EXCEPT !.evaluaciones = Append(@, evaluacion)]
             /\ last' = Resultado("getAllMunicipalitiesComprehensiveEvaluation", id,
                                  "evaluar")
  /\ UNCHANGED <<store, reqsDivision, ahora, reqs, escrituras>>

\* the sort and the return
getAllMunicipalitiesComprehensiveEvaluation_return ==
  /\ consulta.op = "getAllMunicipalitiesComprehensiveEvaluation"
  /\ Len(consulta.evaluaciones) = Len(consulta.municipios)
  /\ consulta' = Ninguna
  /\ last' = [op |-> "getAllMunicipalitiesComprehensiveEvaluation", id |-> 0,
              res |-> "ok",
              evaluaciones |-> OrdenarPorPuntuacion(consulta.evaluaciones)]
  /\ UNCHANGED <<store, reqsDivision, ahora, reqs, escrituras>>

(* ------------------------- read paths of tasks ------------------------ *)
\* the rows of Tarea.findAll({where: {divisionId, estado: 'en_proceso'},
\* order: fechaInicio DESC})
TareasEnProceso(divisionId) ==
  LET ids == SetToSeq({t \in DOMAIN tareas :
                         /\ tareas[t].divisionId = divisionId
                         /\ tareas[t].estado = "en_proceso"})
  IN Permutar(ids, OrdenDesc([i \in 1..Len(ids) |-> tareas[ids[i]].fechaInicio],
                             1..Len(ids)))

\* GET /tareas/proceso up to the end of await actualizarEstadoTareas().  The
\* UPDATE of the updater resolves, or it rejects (falla) and the catch of the
\* updater logs the error.  Either way the promise of the updater resolves
\* to no value (retorno), the count of updated rows being only logged.
showProceso_actualizar(falla) ==
  /\ consulta = Ninguna
  /\ IF falla
     THEN /\ UNCHANGED <<tareas, escrituras>>
          /\ last' = Resultado("actualizarEstadoTareas", 0, "error_registrado")
     ELSE /\ UpdateFinalizada(Vencidas)
          /\ last' = Resultado("actualizarEstadoTareas", Cardinality(Vencidas), "ok")
  /\ consulta' = [op |-> "showProceso", ahora |-> ahora, fallo |-> falla,
                  retorno |-> <<>>, nextTareaId |-> nextTareaId]
  /\ UNCHANGED <<divisiones, nextDivisionId, reqsDivision, municipios, entregas,
                 nextTareaId, nextEntregaId, nextMunicipioId, ahora, reqs>>

\* a read path whose updater lets the rejection of the UPDATE through to the
\* catch of the handler, which renders its error page with no task
showProceso_listar_propaga(divisionId) ==
  /\ consulta.op = "showProceso"
  /\ consulta' = Ninguna
  /\ last' = [op |-> "showProceso", id |-> divisionId,
              res |-> IF consulta.fallo THEN "error" ELSE "ok",
              tareas |-> IF consulta.fallo THEN <<>> ELSE TareasEnProceso(divisionId),
              ahora |-> consulta.ahora, fallo |-> consulta.fallo]
  /\ UNCHANGED <<store, reqsDivision, ahora, reqs, escrituras>>

\* GET /tareas/proceso?divisionId from the queries after the updater to
\* res.render: the tasks en_proceso of the division, as they are stored now
showProceso_listar(divisionId) ==
  /\ consulta.op = "showProceso"
  /\ consulta' = Ninguna
  /\ last' = [op |-> "showProceso", id |-> divisionId, res |-> "ok",
              tareas |-> TareasEnProceso(divisionId),
              ahora |-> consulta.ahora, fallo |-> consulta.fallo]
  /\ UNCHANGED <<store, reqsDivision, ahora, reqs, escrituras>>

(* --------------------- task lifecycle specification ------------------- *)
\* initDatabase has seeded the reference data; no task exists yet
Init ==
  /\ divisiones = (1 :> 1)
  /\ nextDivisionId = 2
  /\ reqsDivision = {}
  /\ consulta = Ninguna
  /\ municipios = (1 :> 1)
  /\ tareas = <<>>
  /\ entregas = <<>>
  /\ nextTareaId = 1
  /\ nextEntregaId = 1
  /\ nextMunicipioId = 2
  /\ ahora = 0
  /\ reqs = [r \in Solicitudes |-> 0]
  /\ escrituras = [t \in 1..MaxTareas |-> 0]
  /\ last = Resultado("initDatabase", 0, "ok")

Next ==
  \/ Tick
  \/ \E i, c \in Instantes, retro \in BOOLEAN : crear("A", 1, i, c, retro)
  \/ \E i, c \in Instantes : crear_v1("A", 1, i, c)
  \/ actualizarEstadoTareas
  \/ actualizarEstadoTareas_lt
  \/ \E r \in Solicitudes, id \in 1..MaxTareas : finalizarTareaManual_find(r, id)
  \/ \E r \in Solicitudes : finalizarTareaManual_update(r)
  \/ \E id \in 1..MaxTareas : eliminarTarea(id)
  \/ \E t \in 1..MaxTareas :
        nextEntregaId <= MaxEntregasCiclo /\ agregarEntrega(t, 1, ahora)
  \/ \E e \in 1..MaxEntregasCiclo : eliminarEntrega(e)
  \/ \E e \in 1..MaxEntregasCiclo, c \in {100, 101} : calificarEntrega(e, c)

Spec == Init /\ [][Next]_vars

(* ------------------------ report specification ----------------------- *)
\* the store grows and shrinks by the handlers; the reports above are read
\* off every store it reaches
Ventanas == {<<0, Hora>>, <<Hora, 2 * Hora>>}

InitInformes ==
  /\ divisiones = (1 :> 1)
  /\ nextDivisionId = 2
  /\ reqsDivision = {}
  /\ consulta = Ninguna
  /\ municipios = <<>>
  /\ tareas = <<>>
  /\ entregas = <<>>
  /\ nextTareaId = 1
  /\ nextEntregaId = 1
  /\ nextMunicipioId = 1
  /\ ahora = 0
  /\ reqs = [r \in Solicitudes |-> 0]
  /\ escrituras = [t \in 1..MaxTareas |-> 0]
  /\ last = Resultado("initDatabase", 0, "ok")

NextInformes ==
  \/ \E n \in 1..MaxMunicipios : crearMunicipio(n)
  \/ \E m \in 1..MaxMunicipios : eliminarMunicipio(m)
  \/ \E n \in NombresTarea, v \in Ventanas : crear_v1(n, 1, v[1], v[2])
  \/ \E t \in 1..MaxTareas : eliminarTarea(t)
  \/ \E t \in 1..MaxTareas, m \in 1..MaxMunicipios, f \in Instantes :
        agregarEntrega(t, m, f)
  \/ \E e \in 1..MaxEntregas : eliminarEntrega(e)

SpecInformes == InitInformes /\ [][NextInformes]_vars

(* ---------------------- punctuality specification --------------------- *)
\* one task whose window is the hour from Hora to 2 * Hora, and deliveries to
\* it at instants before, at, just after, halfway, just before and after the
\* ends of the window
InstantesFinos ==
  {Hora - 1, Hora, Hora + 1, Hora + 2, Hora + (Hora \div 2),
   2 * Hora - 1, 2 * Hora, 2 * Hora + 1}

InitPuntualidad ==
  /\ divisiones = (1 :> 1)
  /\ nextDivisionId = 2
  /\ reqsDivision = {}
  /\ consulta = Ninguna
  /\ municipios = (1 :> 1)
  /\ tareas = <<>>
  /\ entregas = <<>>
  /\ nextTareaId = 1
  /\ nextEntregaId = 1
  /\ nextMunicipioId = 2
  /\ ahora = 0
  /\ reqs = [r \in Solicitudes |-> 0]
  /\ escrituras = [t \in 1..MaxTareas |-> 0]
  /\ last = Resultado("initDatabase", 0, "ok")

NextPuntualidad ==
  \/ nextTareaId = 1 /\ crear_v1("A", 1, Hora, 2 * Hora)
  \/ \E f \in InstantesFinos : agregarEntrega(1, 1, f)
  \/ \E e \in 1..MaxEntregas : eliminarEntrega(e)

SpecPuntualidad == InitPuntualidad /\ [][NextPuntualidad]_vars

(* ------------------------- monthly specification --------------------- *)
\* instants around the ends of month 1: the start of month 0, the last
\* second of month 0, the first instant of month 1, inside it, its endDate, a
\* millisecond after its endDate, the first instant of month 2, inside month 2
InstantesMes ==
  {InicioMes(0), endDate(0), InicioMes(1), InicioMes(1) + Hora, endDate(1),
   endDate(1) + 1, InicioMes(2), InicioMes(2) + Hora}

\* the seeded reference data: two divisions and two municipalities
InitMensual ==
  /\ divisiones = (1 :> 1) @@ (2 :> 2)
  /\ nextDivisionId = 3
  /\ reqsDivision = {}
  /\ consulta = Ninguna
  /\ municipios = (1 :> 1) @@ (2 :> 2)
  /\ tareas = <<>>
  /\ entregas = <<>>
  /\ nextTareaId = 1
  /\ nextEntregaId = 1
  /\ nextMunicipioId = 3
  /\ ahora = 0
  /\ reqs = [r \in Solicitudes |-> 0]
  /\ escrituras = [t \in 1..MaxTareas |-> 0]
  /\ last = Resultado("initDatabase", 0, "ok")

NextMensual ==
  \/ \E d \in DOMAIN divisiones, i, c \in InstantesMes : crear_v1("A", d, i, c)
  \/ \E t \in 1..MaxTareas : eliminarTarea(t)
  \/ \E t \in 1..MaxTareas, m \in DOMAIN municipios : agregarEntrega(t, m, InicioMes(1))
  \/ \E e \in 1..MaxEntregas : eliminarEntrega(e)

SpecMensual == InitMensual /\ [][NextMensual]_vars

(* ------------------------ divisions specification -------------------- *)
InitDivisiones ==
  /\ divisiones = (1 :> 1)
  /\ nextDivisionId = 2
  /\ reqsDivision = {}
  /\ consulta = Ninguna
  /\ municipios = (1 :> 1)
  /\ tareas = <<>>
  /\ entregas = <<>>
  /\ nextTareaId = 1
  /\ nextEntregaId = 1
  /\ nextMunicipioId = 2
  /\ ahora = 0
  /\ reqs = [r \in Solicitudes |-> 0]
  /\ escrituras = [t \in 1..MaxTareas |-> 0]
  /\ last = Resultado("initDatabase", 0, "ok")

NextDivisiones ==
  \/ \E n \in 1..MaxDivisiones : crearDivision(n)
  \/ \E d \in 1..MaxDivisiones : eliminarDivision_count(d)
  \/ \E d \in 1..MaxDivisiones : eliminarDivision_destroy(d)
  \/ \E d \in 1..MaxDivisiones, v \in Ventanas : crear_v1("A", d, v[1], v[2])
  \/ \E t \in 1..MaxTareas : eliminarTarea(t)
  \/ \E t \in 1..MaxTareas : agregarEntrega(t, 1, Hora)
  \/ \E e \in 1..MaxEntregas : eliminarEntrega(e)

SpecDivisiones == InitDivisiones /\ [][NextDivisiones]_vars

(* ------------------------ deliveries specification ------------------- *)
\* two tasks, two municipalities and any table of up to MaxFilasEntregas
\* deliveries that agregarEntrega can have built; rows are then deleted
FilasEntrega ==
  [tareaId : 1..2, municipioId : 1..2, fechaHoraEntrega : Instantes,
   calificacion : {SinCalificacion}]

InitEntregas ==
  /\ divisiones = (1 :> 1)
  /\ nextDivisionId = 2
  /\ reqsDivision = {}
  /\ consulta = Ninguna
  /\ municipios = (1 :> 1) @@ (2 :> 2)
  /\ tareas = [t \in 1..2 |->
                 [nombre |-> "A", divisionId |-> 1, fechaInicio |-> 0,
                  fechaCulminacion |-> Hora, estado |-> "en_proceso"]]
  /\ \E n \in 0..MaxFilasEntregas : entregas \in [1..n -> FilasEntrega]
  /\ nextTareaId = 3
  /\ nextEntregaId = Len(entregas) + 1
  /\ nextMunicipioId = 3
  /\ ahora = 0
  /\ reqs = [r \in Solicitudes |-> 0]
  /\ escrituras = [t \in 1..MaxTareas |-> 0]
  /\ last = Resultado("initDatabase", 0, "ok")

NextEntregas ==
  \/ \E e \in 1..MaxFilasEntregas : eliminarEntrega(e)
  \/ \E t \in 1..2 : eliminarTarea(t)

SpecEntregas == InitEntregas /\ [][NextEntregas]_vars

(* ------------------- repeated deliveries specification --------------- *)
\* two tasks and any table of up to MaxDuplicadas deliveries of municipality
\* 1 that agregarEntrega can have built, a quarter into the window of the
\* task; municipality 2 delivers nothing. Rows are then rated or deleted.
FilasDuplicadas ==
  [tareaId : 1..2, municipioId : {1}, fechaHoraEntrega : {Hora \div 4},
   calificacion : {SinCalificacion}]

Calificaciones == {50}

InitDuplicadas ==
  /\ divisiones = (1 :> 1)
  /\ nextDivisionId = 2
  /\ reqsDivision = {}
  /\ consulta = Ninguna
  /\ municipios = (1 :> 1) @@ (2 :> 2)
  /\ tareas = [t \in 1..2 |->
                 [nombre |-> "A", divisionId |-> 1, fechaInicio |-> 0,
                  fechaCulminacion |-> Hora, estado |-> "en_proceso"]]
  /\ \E n \in 0..MaxDuplicadas : entregas \in [1..n -> FilasDuplicadas]
  /\ nextTareaId = 3
  /\ nextEntregaId = Len(entregas) + 1
  /\ nextMunicipioId = 3
  /\ ahora = 0
  /\ reqs = [r \in Solicitudes |-> 0]
  /\ escrituras = [t \in 1..MaxTareas |-> 0]
  /\ last = Resultado("initDatabase", 0, "ok")

NextDuplicadas ==
  \/ \E e \in 1..MaxDuplicadas : eliminarEntrega(e)
  \/ \E e \in 1..MaxDuplicadas, c \in Calificaciones : calificarEntrega(e, c)

SpecDuplicadas == InitDuplicadas /\ [][NextDuplicadas]_vars

(* -------------------- chart colours specification ------------------- *)
\* any number of municipalities up to MaxColores that crearMunicipio can
\* have created, named in the order of their ids or against it, of which up
\* to MaxBajas are then deleted
InitColores ==
  /\ divisiones = (1 :> 1)
  /\ nextDivisionId = 2
  /\ reqsDivision = {}
  /\ consulta = Ninguna
  /\ \E n \in 0..MaxColores :
        \/ municipios = [m \in 1..n |-> m]
        \/ municipios = [m \in 1..n |-> n + 1 - m]
  /\ tareas = <<>>
  /\ entregas = <<>>
  /\ nextTareaId = 1
  /\ nextEntregaId = 1
  /\ nextMunicipioId = Len(municipios) + 1
  /\ ahora = 0
  /\ reqs = [r \in Solicitudes |-> 0]
  /\ escrituras = [t \in 1..MaxTareas |-> 0]
  /\ last = Resultado("initDatabase", 0, "ok")

NextColores ==
  \E m \in 1..MaxColores :
     /\ nextMunicipioId - 1 - Cardinality(DOMAIN municipios) < MaxBajas
     /\ eliminarMunicipio(m)

SpecColores == InitColores /\ [][NextColores]_vars

(* ------------------ coverage report specification ------------------ *)
\* tasks are created and deliveries added while the coverage report runs
\* its queries one after the other
InitRendimiento ==
  /\ divisiones = (1 :> 1)
  /\ nextDivisionId = 2
  /\ reqsDivision = {}
  /\ consulta = Ninguna
  /\ municipios = (1 :> 2) @@ (2 :> 1)
  /\ tareas = <<>>
  /\ entregas = <<>>
  /\ nextTareaId = 1
  /\ nextEntregaId = 1
  /\ nextMunicipioId = 3
  /\ ahora = 0
  /\ reqs = [r \in Solicitudes |-> 0]
  /\ escrituras = [t \in 1..MaxTareas |-> 0]
  /\ last = Resultado("initDatabase", 0, "ok")

NextRendimiento ==
  \/ crear_v1("A", 1, 0, Hora)
  \/ \E t \in 1..MaxTareas, m \in 1..MaxMunicipios : agregarEntrega(t, m, Hora)
  \/ getMunicipalityPerformanceData_municipios
  \/ getMunicipalityPerformanceData_tareas
  \/ getMunicipalityPerformanceData_entregas
  \/ getMunicipalityPerformanceData_return

SpecRendimiento == InitRendimiento /\ [][NextRendimiento]_vars

(* ------------------------ ratings specification -------------------- *)
\* deliveries at the start of the window of their task, halfway and after
\* its end, rated with values at and beyond the ends of the scale
InstantesEntrega == {0, Hora \div 2, 2 * Hora}

ValoresCalificacion == {0 - 1, 0, 100, 101}

InitCalificaciones ==
  /\ divisiones = (1 :> 1)
  /\ nextDivisionId = 2
  /\ reqsDivision = {}
  /\ consulta = Ninguna
  /\ municipios = (1 :> 1)
  /\ tareas = <<>>
  /\ entregas = <<>>
  /\ nextTareaId = 1
  /\ nextEntregaId = 1
  /\ nextMunicipioId = 2
  /\ ahora = 0
  /\ reqs = [r \in Solicitudes |-> 0]
  /\ escrituras = [t \in 1..MaxTareas |-> 0]
  /\ last = Resultado("initDatabase", 0, "ok")

NextCalificaciones ==
  \/ crear_v1("A", 1, 0, Hora)
  \/ \E t \in 1..MaxTareas, f \in InstantesEntrega : agregarEntrega(t, 1, f)
  \/ \E e \in 1..MaxEntregas : eliminarEntrega(e)
  \/ \E e \in 1..MaxEntregas, c \in ValoresCalificacion : calificarEntrega(e, c)

SpecCalificaciones == InitCalificaciones /\ [][NextCalificaciones]_vars

(* --------------- evaluation of all: specification ------------------- *)
\* municipalities are deleted, unless they have deliveries, while the
\* evaluation of all municipalities runs its queries one after the other
InitEvaluacion ==
  /\ divisiones = (1 :> 1)
  /\ nextDivisionId = 2
  /\ reqsDivision = {}
  /\ consulta = Ninguna
  /\ municipios = (1 :> 1) @@ (2 :> 2)
  /\ tareas = <<>>
  /\ entregas = <<>>
  /\ nextTareaId = 1
  /\ nextEntregaId = 1
  /\ nextMunicipioId = 3
  /\ ahora = 0
  /\ reqs = [r \in Solicitudes |-> 0]
  /\ escrituras = [t \in 1..MaxTareas |-> 0]
  /\ last = Resultado("initDatabase", 0, "ok")

NextEvaluacion ==
  \/ crear_v1("A", 1, 0, Hora)
  \/ \E t \in 1..MaxTareas, m \in 1..MaxMunicipios : agregarEntrega(t, m, Hora)
  \/ \E m \in 1..MaxMunicipios : eliminarMunicipio(m)
  \/ getAllMunicipalitiesComprehensiveEvaluation_findAll(SinFiltros)
  \/ getAllMunicipalitiesComprehensiveEvaluation_evaluar
  \/ getAllMunicipalitiesComprehensiveEvaluation_return

SpecEvaluacion == InitEvaluacion /\ [][NextEvaluacion]_vars

(* ----------------------- read path specification -------------------- *)
\* tasks are created and deleted and the clock advances while requests for
\* the list of tasks in progress run the updater and then their queries
InitLectura ==
  /\ divisiones = (1 :> 1)
  /\ nextDivisionId = 2
  /\ reqsDivision = {}
  /\ consulta = Ninguna
  /\ municipios = (1 :> 1)
  /\ tareas = <<>>
  /\ entregas = <<>>
  /\ nextTareaId = 1
  /\ nextEntregaId = 1
  /\ nextMunicipioId = 2
  /\ ahora = 0
  /\ reqs = [r \in Solicitudes |-> 0]
  /\ escrituras = [t \in 1..MaxTareas |-> 0]
  /\ last = Resultado("initDatabase", 0, "ok")

NextLectura ==
  \/ Tick
  \/ \E i, c \in Instantes, retro \in BOOLEAN : crear("A", 1, i, c, retro)
  \/ \E id \in 1..MaxTareas : eliminarTarea(id)
  \/ \E falla \in BOOLEAN : showProceso_actualizar(falla)
  \/ showProceso_listar(1)

SpecLectura == InitLectura /\ [][NextLectura]_vars

\* the read path keeps being requested with an UPDATE that succeeds, and a
\* request that has run the updater goes on to its queries
SpecLecturaJusta ==
  SpecLectura /\ SF_vars(showProceso_actualizar(FALSE)) /\ WF_vars(showProceso_listar(1))

(* ------------------------ task lifecycle claims ----------------------- *)
Actualizadores == {"actualizarEstadoTareas", "actualizarEstadoTareas_lt"}

\* C4: the status of a task is always en_proceso or finalizada, and no step of
\* any handler takes a task that is finalizada back to en_proceso.
C4_EstadoMonotono ==
  [][\A t \in DOMAIN tareas' :
        /\ tareas'[t].estado \in Estados
        /\ (t \in DOMAIN tareas /\ tareas[t].estado = "finalizada")
              => tareas'[t].estado = "finalizada"]_vars

\* a delivery was added to the store while a task finalized by an UPDATE exists
C4_Witness ==
  /\ last.res = "entrega_agregada"
  /\ \E t \in DOMAIN tareas : tareas[t].estado = "finalizada" /\ escrituras[t] > 0

\* C5: however bulk runs and manual finalizes of one task interleave, at most
\* one UPDATE writes 'finalizada' to the row of the task, no handler ends in
\* an error, and once a finalize has answered the task is finalizada.
C5_UnaSolaEscritura ==
  /\ \A t \in DOMAIN escrituras : escrituras[t] <= 1
  /\ last.op \in Actualizadores \cup {"finalizarTareaManual"} => last.res # "error_servidor"
  /\ (last.op = "finalizarTareaManual" /\ last.res = "tarea_finalizada"
        /\ last.id \in DOMAIN tareas) => tareas[last.id].estado = "finalizada"

\* C6: a run of the updater at instant ahora turns exactly the tasks that are
\* en_proceso with fechaCulminacion <= ahora to finalizada and changes nothing
\* else of any task.
C6_ExactamenteVencidas ==
  [][(actualizarEstadoTareas \/ actualizarEstadoTareas_lt) =>
       tareas' = [t \in DOMAIN tareas |->
                    IF tareas[t].estado = "en_proceso" /\ tareas[t].fechaCulminacion <= ahora
                    THEN [tareas[t] EXCEPT !.estado = "finalizada"]
                    ELSE tareas[t]]]_vars

\* C7: finalizing is idempotent.  A run of the updater that follows a run of
\* the same updater at the same instant, nothing having happened in between,
\* matches no row and leaves every task as it is; a manual finalize goes on
\* to its UPDATE only for a task it read as en_proceso; after a run of the
\* updater every task whose deadline has passed is finalizada, and after a
\* manual finalize has written, its task is finalizada.
C7_Idempotente ==
  [][/\ (last.op = "actualizarEstadoTareas" /\ actualizarEstadoTareas)
           => (tareas' = tareas /\ escrituras' = escrituras /\ last'.id = 0)
     /\ (last.op = "actualizarEstadoTareas_lt" /\ actualizarEstadoTareas_lt)
           => (tareas' = tareas /\ escrituras' = escrituras /\ last'.id = 0)
     /\ \A r \in Solicitudes : (reqs[r] = 0 /\ reqs'[r] # 0)
           => (reqs'[r] \in DOMAIN tareas /\ tareas[reqs'[r]].estado = "en_proceso")
     /\ (last'.op = "finalizarTareaManual" /\ last'.res = "tarea_ya_finalizada")
           => (tareas' = tareas /\ escrituras' = escrituras /\ reqs' = reqs)
     /\ last'.op \in Actualizadores
           => \A t \in DOMAIN tareas' :
                 tareas'[t].fechaCulminacion < ahora' => tareas'[t].estado = "finalizada"
     /\ (last'.op = "finalizarTareaManual" /\ last'.res = "tarea_finalizada"
           /\ last'.id \in DOMAIN tareas') => tareas'[last'.id].estado = "finalizada"]_vars

\* a manual finalize found its task already finalized by a run of the updater
C7_Witness ==
  /\ last.op = "finalizarTareaManual"
  /\ last.res = "tarea_ya_finalizada"
  /\ escrituras[last.id] = 1
  /\ \A r \in Solicitudes : reqs[r] = 0
  /\ tareas[last.id].fechaCulminacion <= ahora

Informe == getMunicipalityPerformanceData

Completadas(m) == {t \in DOMAIN tareas : hasEntrega(t, m)}

\* C1: in every entry of the coverage report tareasCompletadas <= totalTareas,
\* porcentajeCompletado lies between 0 and 100, and it is 0 when there is no task.
C1_CoberturaAcotada ==
  \A i \in DOMAIN Informe :
    /\ Informe[i].tareasCompletadas <= Informe[i].totalTareas
    /\ Informe[i].porcentajeCompletado >= 0
    /\ Informe[i].porcentajeCompletado <= 10000
    /\ Informe[i].totalTareas = 0 => Informe[i].porcentajeCompletado = 0

\* a municipality that delivered twice to one of two tasks is reported at 50%
C1_Witness ==
  \E i \in DOMAIN Informe :
    /\ Len(EntregasDeMunicipio(Informe[i].municipioId)) = 2
    /\ Informe[i].totalTareas = 2
    /\ Informe[i].tareasCompletadas = 1
    /\ Informe[i].porcentajeCompletado = 5000

\* C2: tareasCompletadas is the number of tasks with at least one delivery of
\* the municipality, and actividadesCompletadas holds the name of each such
\* task once, whatever the number of deliveries.
C2_UnaPorTarea ==
  \A i \in DOMAIN Informe :
    LET m == Informe[i].municipioId
        nombres == Informe[i].actividadesCompletadas
    IN /\ Informe[i].tareasCompletadas = Cardinality(Completadas(m))
       /\ Len(nombres) = Cardinality(Completadas(m))
       /\ \A n \in NombresTarea :
            Cardinality({j \in DOMAIN nombres : nombres[j] = n})
              = Cardinality({t \in Completadas(m) : tareas[t].nombre = n})

\* two deliveries of one municipality to the same task, one name listed
C2_Witness ==
  \E i \in DOMAIN Informe :
    /\ \E e1, e2 \in DOMAIN entregas :
         /\ e1 # e2
         /\ entregas[e1].municipioId = Informe[i].municipioId
         /\ entregas[e2].municipioId = Informe[i].municipioId
         /\ entregas[e1].tareaId = entregas[e2].tareaId
    /\ Len(Informe[i].actividadesCompletadas) = 1

FiltrosInformes ==
  {SinFiltros, [divisionId |-> 1, rango |-> <<>>],
   [divisionId |-> 0, rango |-> <<Hora, 2 * Hora>>]}

UnaPorMunicipio(filas) ==
  /\ Len(filas) = Cardinality(DOMAIN municipios)
  /\ {filas[i].municipioId : i \in DOMAIN filas} = DOMAIN municipios

SinEntregas(m) == \A e \in DOMAIN entregas : entregas[e].municipioId # m

\* the municipalities named nombre
DeNombre(nombre) == {m \in DOMAIN municipios : municipios[m] = nombre}

C3_Rendimiento(filas) ==
  /\ UnaPorMunicipio(filas)
  /\ \A i \in DOMAIN filas : SinEntregas(filas[i].municipioId) =>
        /\ filas[i].tareasCompletadas = 0
        /\ filas[i].porcentajeCompletado = 0
        /\ filas[i].actividadesCompletadas = <<>>

C3_Mensual(filas) ==
  /\ UnaPorMunicipio(filas)
  /\ \A i \in DOMAIN filas : SinEntregas(filas[i].municipioId) =>
        filas[i].totalTareasCompletadas = 0 /\ filas[i].porcentajeTotal = 0

C3_Evaluacion(filas) ==
  /\ UnaPorMunicipio(filas)
  /\ \A i \in DOMAIN filas : SinEntregas(filas[i].municipioId) =>
        /\ filas[i].tareasCompletadas = 0
        /\ filas[i].totalEntregas = 0
        /\ filas[i].puntuacionFinal = 0

C3_Ranking(filas) ==
  /\ Len(filas) = Cardinality(DOMAIN municipios)
  /\ {filas[i].municipio : i \in DOMAIN filas} = {municipios[m] : m \in DOMAIN municipios}
  /\ \A i \in DOMAIN filas :
        (\E m \in DeNombre(filas[i].municipio) : SinEntregas(m)) => filas[i].valor = 0

\* C3: each report over all units has exactly one entry per municipality of
\* the store, and a municipality without deliveries appears with zero metrics.
C3_TodosLosMunicipios ==
  /\ C3_Rendimiento(Informe)
  /\ \A k \in 0..MaxMes : C3_Mensual(getMonthlyPerformance(k).municipios)
  /\ \A filtros \in FiltrosInformes :
       C3_Evaluacion(getAllMunicipalitiesComprehensiveEvaluation(filtros))
  /\ \A filtros \in FiltrosInformes, metrica \in Metricas :
       C3_Ranking(getMunicipalityRanking(metrica, filtros))

C3_PrimeroConPuntos(filas) ==
  Len(filas) = 2 /\ filas[1].puntuacionFinal > 0 /\ filas[2].totalEntregas = 0

\* two municipalities, tasks in the store, one municipality with a delivery
\* and a positive score, the other without any
C3_Witness ==
  /\ Cardinality(DOMAIN municipios) = 2
  /\ DOMAIN tareas # {}
  /\ \E m \in DOMAIN municipios : SinEntregas(m)
  /\ C3_PrimeroConPuntos(getAllMunicipalitiesComprehensiveEvaluation(SinFiltros))

\* the deliveries of municipality m to the tasks ts
EnAlcance(m, ts) ==
  {e \in DOMAIN entregas :
     /\ entregas[e].municipioId = m
     /\ \E i \in DOMAIN ts : ts[i] = entregas[e].tareaId}

ATiempo(alcance) ==
  {e \in alcance : entregas[e].fechaHoraEntrega
                     <= tareas[entregas[e].tareaId].fechaCulminacion}

C10_Cuenta(ev, alcance) ==
  /\ ev.totalEntregas = Cardinality(alcance)
  /\ ev.entregasPuntuales = Cardinality(ATiempo(alcance))
  /\ ev.entregasTardias = Cardinality(alcance \ ATiempo(alcance))
  /\ ev.entregasPuntuales + ev.entregasTardias = ev.totalEntregas

\* C10: every delivery in scope is counted once, on time or late, and it is
\* on time iff fechaHoraEntrega <= fechaCulminacion of its task.
C10_PuntualesYTardias ==
  \A m \in DOMAIN municipios, filtros \in FiltrosInformes :
    C10_Cuenta(getMunicipalityComprehensiveEvaluation(m, filtros),
               EnAlcance(m, TareasFiltradas(filtros)))

C10_UnaYUna(ev, alcance) ==
  /\ ev.entregasPuntuales = 1
  /\ ev.entregasTardias = 1
  /\ \E e \in alcance :
       entregas[e].fechaHoraEntrega = tareas[entregas[e].tareaId].fechaCulminacion

\* one delivery exactly at the deadline and one after it: one on time, one late
C10_Witness ==
  \E m \in DOMAIN municipios :
    C10_UnaYUna(getMunicipalityComprehensiveEvaluation(m, SinFiltros),
                EnAlcance(m, TareasFiltradas(SinFiltros)))

(* ------------------------------ month claims -------------------------- *)
Meses == 0..(MaxMes + 1)

\* the interval of task t meets the range [desde, hasta]
Interseca(t, desde, hasta) ==
  tareas[t].fechaInicio <= hasta /\ tareas[t].fechaCulminacion >= desde

\* every row of the report of a month gives n as the tasks assigned
AsignadasEnInforme(informe, n) ==
  \A i \in DOMAIN informe.municipios : informe.municipios[i].totalTareasAsignadas = n

\* C11: a task is attributed to a month iff its interval from fechaInicio to
\* fechaCulminacion meets the window from startDate to endDate of the query;
\* a task wholly before or wholly after the window is not counted.
C11_IntersecaLaVentana ==
  \A k \in Meses :
    /\ TareasDelMes(k) = {t \in DOMAIN tareas : Interseca(t, startDate(k), endDate(k))}
    /\ AsignadasEnInforme(getMonthlyPerformance(k), Cardinality(TareasDelMes(k)))

\* a task that starts before month 1 and ends after it is the only task of
\* the report of month 1, while another task lies wholly before month 1
C11_Witness ==
  /\ \E t \in DOMAIN tareas : /\ tareas[t].fechaInicio < startDate(1)
                               /\ tareas[t].fechaCulminacion > endDate(1)
  /\ \E t \in DOMAIN tareas : tareas[t].fechaCulminacion < startDate(1)
  /\ Cardinality(TareasDelMes(1)) = 1
  /\ AsignadasEnInforme(getMonthlyPerformance(1), 1)

\* C12: the window of month k is closed and runs to the last millisecond
\* before month k + 1, so a task whose start or deadline falls anywhere in
\* the calendar month, its final second included, is attributed to month k.
C12_HastaElUltimoMilisegundo ==
  \A k \in Meses :
    TareasDelMes(k) =
      {t \in DOMAIN tareas : Interseca(t, InicioMes(k), InicioMes(k + 1) - 1)}

\* the tasks of month k that belong to division d
TareasDeDivision(k, d) == {t \in TareasDelMes(k) : tareas[t].divisionId = d}

\* the row of one municipality in the report of month k
C13_Fila(k, fila) ==
  /\ Suma([j \in 1..Len(fila.divisionData) |-> fila.divisionData[j].tareasAsignadas])
       = fila.totalTareasAsignadas
  /\ Suma([j \in 1..Len(fila.divisionData) |-> fila.divisionData[j].tareasCompletadas])
       = fila.totalTareasCompletadas
  /\ {fila.divisionData[j].divisionId : j \in DOMAIN fila.divisionData}
       = {d \in DOMAIN divisiones : TareasDeDivision(k, d) # {}}
  /\ \A i, j \in DOMAIN fila.divisionData :
        fila.divisionData[i].divisionId = fila.divisionData[j].divisionId => i = j
  /\ \A j \in DOMAIN fila.divisionData :
        /\ fila.divisionData[j].tareasAsignadas
             = Cardinality(TareasDeDivision(k, fila.divisionData[j].divisionId))
        /\ fila.divisionData[j].tareasAsignadas > 0
        /\ fila.divisionData[j].tareasCompletadas <= fila.divisionData[j].tareasAsignadas

C13_Filas(k, filas) == \A i \in DOMAIN filas : C13_Fila(k, filas[i])

\* C13: in every monthly report and for every municipality the rows of
\* divisionData add up to totalTareasAsignadas and totalTareasCompletadas,
\* divisionData lists exactly the divisions with a task in the window, each
\* once, and no row has more tasks completed than assigned.
C13_SumasPorDivision ==
  \A k \in Meses : C13_Filas(k, getMonthlyPerformance(k).municipios)

C13_DosDivisiones(filas) ==
  \E i \in DOMAIN filas :
    /\ Len(filas[i].divisionData) = 2
    /\ filas[i].totalTareasAsignadas = 2
    /\ filas[i].totalTareasCompletadas = 1

\* month 1 has a task in each of two divisions and a municipality that has
\* delivered to one of them
C13_Witness == C13_DosDivisiones(getMonthlyPerformance(1).municipios)

(* ---------------------------- division claims ------------------------- *)
\* the row of one municipality counts every task of month k
C14_Fila(k, fila) ==
  /\ fila.totalTareasAsignadas = Cardinality(TareasDelMes(k))
  /\ fila.totalTareasCompletadas
       = Cardinality({t \in TareasDelMes(k) : hasEntrega(t, fila.municipioId)})

C14_Filas(k, filas) == \A i \in DOMAIN filas : C14_Fila(k, filas[i])

\* every task refers to a division of the store, and the monthly totals of
\* every municipality count every task of the month
C14_TareasConDivision ==
  /\ \A t \in DOMAIN tareas : tareas[t].divisionId \in DOMAIN divisiones
  /\ \A k \in Meses : C14_Filas(k, getMonthlyPerformance(k).municipios)

\* C14: no division is deleted while a task refers to it, also when the task
\* was created between the count of eliminarDivision and its destroy; so
\* every task refers to an existing division and the monthly totals of every
\* municipality equal the tasks of the month and those of them it delivered.
C14_BajaBloqueada ==
  [][/\ \A d \in DOMAIN divisiones \ DOMAIN divisiones' :
           \A t \in DOMAIN tareas : tareas[t].divisionId # d
     /\ C14_TareasConDivision']_vars

(* ---------------------------- delivery claims ------------------------- *)
TareaIds == 1..3

MunicipiosDe(tareaId) ==
  {entregas[e].municipioId : e \in {x \in DOMAIN entregas : entregas[x].tareaId = tareaId}}

C15_Resultado(tareaId, r) ==
  /\ r.totalMunicipalities = Cardinality(MunicipiosDe(tareaId))
  /\ Len(r.uniqueMunicipalityIds) = r.totalMunicipalities
  /\ {r.uniqueMunicipalityIds[i] : i \in DOMAIN r.uniqueMunicipalityIds}
       = MunicipiosDe(tareaId)
  /\ \A i, j \in DOMAIN r.uniqueMunicipalityIds :
        r.uniqueMunicipalityIds[i] = r.uniqueMunicipalityIds[j] => i = j
  /\ MunicipiosDe(tareaId) = {}
       => r = [totalMunicipalities |-> 0, uniqueMunicipalityIds |-> <<>>]

\* C15: for a task with N deliveries from M distinct municipalities the count
\* is M and uniqueMunicipalityIds holds those M ids, each once; deliveries of
\* other tasks are not counted, and without deliveries the result is 0 and [].
C15_MunicipiosDistintos ==
  \A tareaId \in TareaIds :
    C15_Resultado(tareaId, countUniqueMunicipalitiesForTask(tareaId))

\* after a delivery was deleted, a task is left with two deliveries from one
\* municipality, counted as one, while the other task has a delivery too
C15_Witness ==
  /\ last.op = "eliminarEntrega" /\ last.res = "entrega_eliminada"
  /\ \E tareaId \in TareaIds :
       /\ Len(EntregasDeTarea(tareaId)) = 2
       /\ countUniqueMunicipalitiesForTask(tareaId).totalMunicipalities = 1
       /\ Cardinality(DOMAIN entregas) = 3

C16_Orden(tareaId, r) ==
  /\ Len(r) = Cardinality({e \in DOMAIN entregas : entregas[e].tareaId = tareaId})
  /\ {r[i] : i \in DOMAIN r} = {e \in DOMAIN entregas : entregas[e].tareaId = tareaId}
  /\ \A i \in 1..(Len(r) - 1) :
        entregas[r[i]].fechaHoraEntrega <= entregas[r[i + 1]].fechaHoraEntrega

\* C16: the result is a permutation of the deliveries of the task, none
\* dropped or repeated, with fechaHoraEntrega non-decreasing along it.
C16_OrdenCronologico ==
  \A tareaId \in TareaIds : C16_Orden(tareaId, getSortedDeliveriesForTask(tareaId))

C16_Desordenadas(r) ==
  /\ Len(r) = 3
  /\ r[1] > r[2]
  /\ entregas[r[2]].fechaHoraEntrega = entregas[r[3]].fechaHoraEntrega

\* after a task was deleted, the other task has three deliveries, the
\* earliest of them not the first stored and the other two with the same
\* timestamp
C16_Witness ==
  /\ last.op = "eliminarTarea" /\ last.res = "tarea_eliminada"
  /\ \E tareaId \in TareaIds : C16_Desordenadas(getSortedDeliveriesForTask(tareaId))

(* ----------------------------- ranking claims ------------------------- *)
\* the position of the municipality named nombre in the evaluations
PosicionEn(evaluaciones, nombre) ==
  CHOOSE i \in DOMAIN evaluaciones : evaluaciones[i].municipioNombre = nombre

C17_Ranking(ranking, evaluaciones, metrica) ==
  /\ Len(ranking) = Cardinality(DOMAIN municipios)
  /\ {ranking[i].municipio : i \in DOMAIN ranking}
       = {municipios[m] : m \in DOMAIN municipios}
  /\ \A i \in DOMAIN ranking :
        /\ ranking[i].posicion = i
        /\ ranking[i].valor
             = valorDe(evaluaciones[PosicionEn(evaluaciones, ranking[i].municipio)], metrica)
  /\ \A i, j \in DOMAIN ranking : i < j =>
        /\ ranking[i].valor >= ranking[j].valor
        /\ ranking[i].valor = ranking[j].valor
             => PosicionEn(evaluaciones, ranking[i].municipio)
                  < PosicionEn(evaluaciones, ranking[j].municipio)

\* C17: the ranking has one row per municipality, positions 1..N each used
\* once, values non-increasing with the position, and municipalities with
\* equal value in the order getAllMunicipalitiesComprehensiveEvaluation gave.
C17_RankingEstable ==
  \A filtros \in FiltrosInformes, metrica \in Metricas :
    C17_Ranking(getMunicipalityRanking(metrica, filtros),
                getAllMunicipalitiesComprehensiveEvaluation(filtros), metrica)

C17_Empate(ranking) ==
  /\ Len(ranking) = 2
  /\ ranking[1].valor = ranking[2].valor /\ ranking[1].valor > 0
  /\ ranking[1].municipio > ranking[2].municipio

\* two municipalities with the same coverage, ranked in the order of their
\* composite scores and against the order of their names
C17_Witness == C17_Empate(getMunicipalityRanking("cobertura", SinFiltros))

C18_Orden(evaluaciones) ==
  /\ Len(evaluaciones) = Cardinality(DOMAIN municipios)
  /\ \A i, j \in DOMAIN evaluaciones : i < j =>
        /\ evaluaciones[i].puntuacionFinal >= evaluaciones[j].puntuacionFinal
        /\ evaluaciones[i].puntuacionFinal = evaluaciones[j].puntuacionFinal
             => evaluaciones[i].municipioNombre < evaluaciones[j].municipioNombre

\* C18: the evaluations come ordered by puntuacionFinal non-increasing, and
\* municipalities with equal puntuacionFinal in ascending order of name.
C18_PorPuntuacion ==
  \A filtros \in FiltrosInformes :
    C18_Orden(getAllMunicipalitiesComprehensiveEvaluation(filtros))

C18_SegundoPrimero(evaluaciones) ==
  /\ Len(evaluaciones) = 2
  /\ evaluaciones[1].municipioNombre > evaluaciones[2].municipioNombre
  /\ evaluaciones[1].puntuacionFinal > evaluaciones[2].puntuacionFinal
  /\ evaluaciones[2].puntuacionFinal > 0

\* two municipalities with positive scores, the later in name order first
C18_Witness == C18_SegundoPrimero(getAllMunicipalitiesComprehensiveEvaluation(SinFiltros))

(* ------------------------ composite score claims --------------------- *)
Min(a, b) == IF a <= b THEN a ELSE b

Abs(x) == IF x < 0 THEN 0 - x ELSE x

\* the sums the loop over the tasks leaves behind, read from the details
C19_Suma(ev, campo) ==
  Suma([i \in 1..Len(ev.detallesTareas) |->
          IF campo = "puntualidad" THEN ev.detallesTareas[i].sumaPuntualidad
          ELSE ev.detallesTareas[i].sumaCalidad])

\* ev.puntuacionFinal is coverage * 0.40 + average punctuality * 0.30
\* + average quality * 0.20 + min(average quantity * 20, 100) * 0.10, rounded
\* to two decimals; every average of nothing is 0. The four terms are put
\* over the common denominator a * b * c * e.
C19_Formula(ev) ==
  LET a == IF ev.totalTareas > 0 THEN ev.totalTareas ELSE 1
      b == IF ev.totalEntregas > 0 THEN ev.totalEntregas ELSE 1
      c == IF ev.entregasCalificadas > 0 THEN ev.entregasCalificadas ELSE 1
      e == IF ev.tareasCompletadas > 0 THEN ev.tareasCompletadas ELSE 1
      \* tenths of a hundredth of a point, so that 0.30 of a score is exact
      cobertura == IF ev.totalTareas > 0 THEN 40000 * ev.tareasCompletadas ELSE 0
      puntualidad == IF ev.totalEntregas > 0 THEN 3 * C19_Suma(ev, "puntualidad") ELSE 0
      calidad == IF ev.entregasCalificadas > 0 THEN 200 * C19_Suma(ev, "calidad") ELSE 0
      cantidad == IF ev.tareasCompletadas > 0
                  THEN Min(2000 * ev.totalEntregas, 10000 * e) ELSE 0
      num == cobertura * b * c * e + puntualidad * a * c * e
             + calidad * a * b * e + cantidad * a * b * c
      den == 10 * a * b * c * e
  IN /\ 2 * Abs(ev.puntuacionFinal * den - num) <= den
     /\ 10 * terminoCantidad(ev.totalEntregas, ev.tareasCompletadas) = cantidad
     /\ terminoCantidad(ev.totalEntregas, ev.tareasCompletadas) <= 1000 * e
     /\ (ev.tareasCompletadas > 0 /\ ev.totalEntregas >= 5 * ev.tareasCompletadas)
          => terminoCantidad(ev.totalEntregas, ev.tareasCompletadas) = 1000 * e

\* C19: the composite score is coverage * 0.40 + average punctuality * 0.30
\* + average quality * 0.20 + min(average quantity * 20, 100) * 0.10; the
\* quantity term is never above 10 points and is exactly 10 points from an
\* average of 5 deliveries per completed task on.
C19_PuntuacionCompuesta ==
  \A m \in DOMAIN municipios :
    C19_Formula(getMunicipalityComprehensiveEvaluation(m, SinFiltros))

\* after a delivery was rated, a municipality with more than 5 deliveries
\* per completed task and another task without delivery: 20 points of
\* coverage, 22.5 of punctuality, 10 of quality and 10 of quantity
C19_Witness ==
  /\ last.op = "calificarEntrega" /\ last.res = "entrega_calificada"
  /\ LET ev == getMunicipalityComprehensiveEvaluation(1, SinFiltros)
     IN /\ ev.tareasCompletadas = 1 /\ ev.totalTareas = 2
        /\ ev.totalEntregas > 5 * ev.tareasCompletadas
        /\ ev.entregasCalificadas = 1
        /\ ev.puntuacionFinal = 6250

(* ---------------------- evaluation failure claims -------------------- *)
\* ids of municipalities that exist, existed or never existed
MunicipioIds == 1..(MaxMunicipios + 1)

\* the filters of the reports and one by a division that has no task
C20_Filtros == FiltrosInformes \cup {[divisionId |-> MaxDivisiones, rango |-> <<>>]}

\* the deliveries of municipality m to the tasks of the scope of filtros
C20_Entregas(m, filtros) ==
  {e \in DOMAIN entregas :
     /\ entregas[e].municipioId = m
     /\ \E i \in DOMAIN TareasFiltradas(filtros) :
           TareasFiltradas(filtros)[i] = entregas[e].tareaId}

C20_Evaluacion(m, filtros, ev) ==
  /\ ev.error <=> m \notin DOMAIN municipios
  /\ ev.error => ev.mensaje[2] = m
  /\ ~ev.error =>
       /\ {ev.porcentajeCobertura, ev.porcentajePuntualidad, ev.promedioPuntualidad,
           ev.promedioEntregasPorTarea, ev.promedioCalidad, ev.puntuacionFinal}
             \subseteq Nat
       /\ TareasFiltradas(filtros) = <<>> => ev.porcentajeCobertura = 0
       /\ C20_Entregas(m, filtros) = {} =>
             /\ ev.porcentajeCobertura = 0
             /\ ev.porcentajePuntualidad = 0
             /\ ev.promedioPuntualidad = 0
             /\ ev.promedioEntregasPorTarea = 0
             /\ ev.puntuacionFinal = 0
       /\ (\A e \in C20_Entregas(m, filtros) : entregas[e].calificacion = SinCalificacion)
             => ev.promedioCalidad = 0

\* C20: the evaluation of a municipality fails exactly when the id names no
\* municipality, with a message that carries the id; for a municipality that
\* exists it returns numbers, and coverage, punctuality, quantity, quality
\* and the composite are 0 where there are no tasks, no deliveries or no
\* ratings to average.
C20_FallaSoloSiNoExiste ==
  \A m \in MunicipioIds, filtros \in C20_Filtros :
    C20_Evaluacion(m, filtros, getMunicipalityComprehensiveEvaluation(m, filtros))

\* a municipality was deleted and its evaluation fails, while a municipality
\* that remains has a task in scope, no delivery and a composite of 0, and is
\* evaluated under a filter that leaves no task
C20_Witness ==
  /\ last.op = "eliminarMunicipio" /\ last.res = "eliminado"
  /\ getMunicipalityComprehensiveEvaluation(last.id, SinFiltros).error
  /\ \E m \in DOMAIN municipios, filtros \in C20_Filtros :
        /\ getMunicipalityComprehensiveEvaluation(m, SinFiltros).totalTareas > 0
        /\ getMunicipalityComprehensiveEvaluation(m, SinFiltros).puntuacionFinal = 0
        /\ getMunicipalityComprehensiveEvaluation(m, filtros).totalTareas = 0

(* -------------------------- punctuality claims ------------------------ *)
Puntaje(e) ==
  calcularPuntualidad(entregas[e].fechaHoraEntrega,
                      tareas[entregas[e].tareaId].fechaInicio,
                      tareas[entregas[e].tareaId].fechaCulminacion)

Dentro(e) ==
  /\ entregas[e].fechaHoraEntrega > tareas[entregas[e].tareaId].fechaInicio
  /\ entregas[e].fechaHoraEntrega < tareas[entregas[e].tareaId].fechaCulminacion

EnLosExtremos(e) ==
  /\ entregas[e].fechaHoraEntrega <= tareas[entregas[e].tareaId].fechaInicio
       => Puntaje(e) = 10000
  /\ entregas[e].fechaHoraEntrega >= tareas[entregas[e].tareaId].fechaCulminacion
       => Puntaje(e) = 0

Ventana(e) ==
  tareas[entregas[e].tareaId].fechaCulminacion - tareas[entregas[e].tareaId].fechaInicio

Atrasadas(d, t) ==
  {x \in DOMAIN tareas :
     /\ tareas[x].divisionId = d
     /\ tareas[x].estado = "en_proceso"
     /\ tareas[x].fechaCulminacion <= t}

Listadas == {last.tareas[i] : i \in DOMAIN last.tareas}

\* C21: when the UPDATE of the updater fails, the updater still returns to
\* the read path, no task changes status in that run, and the read path goes
\* on to answer with the list of the tasks as they are stored, the overdue
\* ones still in progress.
C21_FalloNoFatal ==
  [][/\ (consulta = Ninguna /\ consulta'.op = "showProceso" /\ consulta'.fallo)
          => tareas' = tareas /\ escrituras' = escrituras
     /\ (consulta.op = "showProceso" /\ consulta.fallo /\ consulta' = Ninguna)
          => /\ last'.op = "showProceso" /\ last'.res = "ok"
             /\ Len(last'.tareas) = Cardinality({last'.tareas[i] : i \in DOMAIN last'.tareas})
             /\ {last'.tareas[i] : i \in DOMAIN last'.tareas}
                  = {x \in DOMAIN tareas :
                       tareas[x].divisionId = last'.id /\ tareas[x].estado = "en_proceso"}
             /\ Atrasadas(last'.id, consulta.ahora)
                  \subseteq {last'.tareas[i] : i \in DOMAIN last'.tareas}]_vars

\* a request whose updater failed has listed a task that was overdue when the
\* updater ran
C21_Witness ==
  /\ last.op = "showProceso" /\ last.fallo /\ last.res = "ok"
  /\ \E x \in Listadas : tareas[x].fechaCulminacion <= last.ahora

\* C23: the updater returns to its caller the number of tasks it took from
\* en_proceso to finalizada in the run, 0 when none was due.
C23_DevuelveLaCuenta ==
  [][(consulta = Ninguna /\ consulta'.op = "showProceso" /\ ~consulta'.fallo)
        => consulta'.retorno = <<Cardinality(Vencidas)>>]_vars

(* ------------------------ store failure claims ----------------------- *)
\* the positions a rejected query can have, and one past the last
Fallas == 1..(3 + MaxMunicipios)

\* the call ended in an error whose message is the component's own
C22_ErrorPropio(res) == res.error /\ res.mensaje # ErrorAlmacen

\* C22: a rejected store query inside countUniqueMunicipalitiesForTask,
\* getSortedDeliveriesForTask, getMunicipalityPerformanceData,
\* getMonthlyPerformance or getMunicipalityComprehensiveEvaluation ends the
\* call in an error with a message of the component, never in a result.
C22_ErrorDelComponente ==
  /\ \A tareaId \in TareaIds :
       /\ C22_ErrorPropio(countUniqueMunicipalitiesForTask_consulta(tareaId, 1))
       /\ C22_ErrorPropio(getSortedDeliveriesForTask_consulta(tareaId, 1))
  /\ \A falla \in 1..(2 + Cardinality(DOMAIN municipios)) :
       C22_ErrorPropio(getMunicipalityPerformanceData_consulta(falla))
  /\ \A k \in Meses, falla \in 1..3 :
       C22_ErrorPropio(getMonthlyPerformance_consulta(k, falla))
  /\ \A m \in DOMAIN municipios, falla \in 1..2 :
       C22_ErrorPropio(getMunicipalityComprehensiveEvaluation_consulta(m, SinFiltros, falla))

\* the part of C22 that holds: a rejected store query ends the call in an
\* error, and a call no query of which is rejected returns its result
C22_NuncaSuprimida ==
  /\ \A tareaId \in TareaIds, falla \in Fallas \cup {0} :
       /\ countUniqueMunicipalitiesForTask_consulta(tareaId, falla).error <=> falla = 1
       /\ getSortedDeliveriesForTask_consulta(tareaId, falla).error <=> falla = 1
  /\ \A falla \in Fallas \cup {0} :
       getMunicipalityPerformanceData_consulta(falla).error
         <=> falla \in 1..(2 + Cardinality(DOMAIN municipios))
  /\ \A k \in Meses, falla \in Fallas \cup {0} :
       getMonthlyPerformance_consulta(k, falla).error <=> falla \in 1..3
  /\ \A m \in DOMAIN municipios, falla \in Fallas \cup {0} :
       getMunicipalityComprehensiveEvaluation_consulta(m, SinFiltros, falla).error
         <=> falla \in 1..2

(* -------------------------- chart colour claims ---------------------- *)
C24_Paleta(filas) ==
  /\ Len(filas) = Cardinality(DOMAIN municipios)
  /\ \A i, j \in DOMAIN filas : i < j => filas[i].municipioNombre < filas[j].municipioNombre
  /\ \A i \in DOMAIN filas : filas[i].color = CHART_COLORS[((i - 1) % 15) + 1]
  /\ Len(filas) <= 15 =>
       \A i, j \in DOMAIN filas : i # j => filas[i].color # filas[j].color
  /\ Len(filas) >= 16 => filas[16].color = filas[1].color

FiltroDelMes(k) == [divisionId |-> 0, rango |-> <<startDate(k), endDate(k)>>]

C25_Fila(ev, fila) ==
  /\ fila.municipioId = ev.municipioId
  /\ ev.totalTareas = fila.totalTareasAsignadas
  /\ ev.tareasCompletadas = fila.totalTareasCompletadas

C25_Mes(k, filas) ==
  /\ Len(filas) = Cardinality(DOMAIN municipios)
  /\ \A i \in DOMAIN filas :
       C25_Fila(getMunicipalityComprehensiveEvaluation(filas[i].municipioId, FiltroDelMes(k)),
                filas[i])

\* C25: when the division of every task exists, the evaluation of a
\* municipality filtered by the window of a month counts the tasks and the
\* completed tasks that the monthly report of that month gives as its totals
\* for the municipality.
C25_MismasTareas ==
  (\A t \in DOMAIN tareas : tareas[t].divisionId \in DOMAIN divisiones)
    => \A k \in Meses : C25_Mes(k, getMonthlyPerformance(k).municipios)

\* after a delivery was added, month 1 has one of two tasks, one that starts
\* before the month and ends after it, and a municipality has delivered it
C25_Witness ==
  /\ last.op = "agregarEntrega" /\ last.res = "entrega_agregada"
  /\ Cardinality(DOMAIN tareas) = 2
  /\ \E m \in DOMAIN municipios :
       LET ev == getMunicipalityComprehensiveEvaluation(m, FiltroDelMes(1))
       IN /\ ev.totalTareas = 1 /\ ev.tareasCompletadas = 1
          /\ tareas[ev.detallesTareas[1].tareaId].fechaInicio < startDate(1)
          /\ tareas[ev.detallesTareas[1].tareaId].fechaCulminacion > endDate(1)

\* C26, its second half: a request whose updater succeeded at instant now
\* lists no task with fechaCulminacion <= now as in progress.
C26_ListaSinVencidas ==
  [][(consulta.op = "showProceso" /\ ~consulta.fallo /\ consulta' = Ninguna)
        => \A i \in DOMAIN last'.tareas :
              tareas[last'.tareas[i]].fechaCulminacion > consulta.ahora]_vars

\* C26, its first half: while the read path keeps being requested and its
\* UPDATE succeeds, a task en_proceso whose deadline has passed is eventually
\* finalizada, unless it is deleted first.
C26_TerminaFinalizada ==
  \A t \in 1..MaxTareas :
    (t \in DOMAIN tareas /\ tareas[t].estado = "en_proceso"
       /\ tareas[t].fechaCulminacion <= ahora)
      ~> (t \notin DOMAIN tareas \/ tareas[t].estado = "finalizada")

\* the second half for the tasks that existed when the updater ran: ids are
\* given in order, so these are the ids below the next id of that instant
C26_ListaSinVencidasPrevias ==
  [][(consulta.op = "showProceso" /\ ~consulta.fallo /\ consulta' = Ninguna)
        => \A i \in DOMAIN last'.tareas :
              last'.tareas[i] < consulta.nextTareaId
                => tareas[last'.tareas[i]].fechaCulminacion > consulta.ahora]_vars

(* ---------------------- interleaved report claims -------------------- *)
\* C27: however task creations and delivery insertions fall between the
\* queries of the coverage report, every entry it returns has
\* tareasCompletadas <= totalTareas and porcentajeCompletado <= 100.
C27_EntradasCoherentes ==
  (last.op = "getMunicipalityPerformanceData" /\ last.res = "ok")
    => \A i \in DOMAIN last.performanceData :
          /\ last.performanceData[i].tareasCompletadas <= last.performanceData[i].totalTareas
          /\ last.performanceData[i].porcentajeCompletado <= 10000

(* --------------------------- range claims ---------------------------- *)
C28_Rango(ev) ==
  /\ ev.porcentajeCobertura \in 0..10000
  /\ ev.porcentajePuntualidad \in 0..10000
  /\ ev.promedioPuntualidad \in 0..10000
  /\ ev.promedioCalidad \in 0..10000
  /\ ev.puntuacionFinal \in 0..10000

\* C28: in every store the handlers can reach, where a rating outside 0..100
\* is rejected and leaves the delivery as it was, porcentajeCobertura,
\* porcentajePuntualidad, promedioPuntualidad, promedioCalidad and
\* puntuacionFinal of every evaluation are within 0 and 100.
C28_MetricasAcotadas ==
  /\ \A e \in DOMAIN entregas :
        entregas[e].calificacion # SinCalificacion => entregas[e].calificacion[1] \in 0..100
  /\ \A m \in DOMAIN municipios, filtros \in FiltrosInformes :
        C28_Rango(getMunicipalityComprehensiveEvaluation(m, filtros))

\* a rating of 101 was rejected for a delivery rated 100, and the evaluation
\* has the coverage, the punctuality and the quality at 100
C28_Witness ==
  /\ last.op = "calificarEntrega" /\ last.res = "calificacion_invalida"
  /\ \E e \in DOMAIN entregas : entregas[e].calificacion = <<100>>
  /\ LET ev == getMunicipalityComprehensiveEvaluation(1, SinFiltros)
     IN /\ ev.porcentajeCobertura = 10000
        /\ ev.promedioPuntualidad = 10000
        /\ ev.promedioCalidad = 10000

(* ------------------- timeliness and punctuality claims --------------- *)
\* the delivery is after the deadline of its task
Tardia(e) == entregas[e].fechaHoraEntrega > tareas[entregas[e].tareaId].fechaCulminacion

\* the sum of the scores of the deliveries es
RECURSIVE SumaPuntajes(_)
SumaPuntajes(es) ==
  IF es = {} THEN 0
  ELSE LET e == CHOOSE x \in es : TRUE IN Puntaje(e) + SumaPuntajes(es \ {e})

C29_Evaluacion(m, ev) ==
  LET es == {e \in DOMAIN entregas : entregas[e].municipioId = m}
  IN /\ ev.entregasTardias = Cardinality({e \in es : Tardia(e)})
     /\ ev.entregasPuntuales = Cardinality({e \in es : ~Tardia(e)})
     /\ ev.totalEntregas > 0 =>
          ev.promedioPuntualidad
            = RoundDiv(SumaPuntajes({e \in es : ~Tardia(e)}), ev.totalEntregas)

\* C29: in every evaluation a delivery counted as late, fechaHoraEntrega
\* after fechaCulminacion, adds a punctuality score of 0, and a delivery
\* whose score is above 0 is counted as on time.
C29_TardiaSinPuntaje ==
  /\ \A e \in DOMAIN entregas :
       /\ Tardia(e) => Puntaje(e) = 0
       /\ Puntaje(e) > 0 => ~Tardia(e)
  /\ \A m \in DOMAIN municipios :
       C29_Evaluacion(m, getMunicipalityComprehensiveEvaluation(m, SinFiltros))

\* after a delivery was added the municipality has one delivery after the
\* deadline and one before it, and its average is half the score of the
\* second
C29_Witness ==
  /\ last.op = "agregarEntrega" /\ last.res = "entrega_agregada"
  /\ LET ev == getMunicipalityComprehensiveEvaluation(1, SinFiltros)
     IN /\ ev.entregasTardias = 1 /\ ev.entregasPuntuales = 1
        /\ ev.promedioPuntualidad = 2500

\* C30: however deletions of municipalities without deliveries fall between
\* the listing of the municipalities and the evaluation of each, the
\* evaluation of all municipalities never ends in the error of a
\* municipality not found.
C30_NuncaNoEncontrado ==
  last.op = "getAllMunicipalitiesComprehensiveEvaluation" => last.res # "error"

\* a call that returns has one evaluation for each municipality it listed,
\* each of a municipality that existed when it was evaluated
C30_UnaPorListado ==
  [][(consulta.op = "getAllMunicipalitiesComprehensiveEvaluation"
        /\ consulta' = Ninguna /\ last'.res = "ok")
       => /\ Len(last'.evaluaciones) = Len(consulta.municipios)
          /\ {last'.evaluaciones[i].municipioId : i \in DOMAIN last'.evaluaciones}
               = {consulta.municipios[i] : i \in DOMAIN consulta.municipios}]_vars
====
